---- MODULE Spec2Model ----
(***************************************************************************)
(* Model of the task orchestration pipeline of ai-tools-gui-automation:    *)
(* the file manager (src/src/file_manager.py) and the orchestrator         *)
(* (src/src/main.py) driving the providers through their common interface. *)
(***************************************************************************)
EXTENDS Integers, Sequences, FiniteSets, TLC

\* ------------------------------------------------------------------------
\* Bounds of the model
\* ------------------------------------------------------------------------
MaxTasks == 2
MaxRetry == 2
MaxCalls == 3
\* browser sessions one run can start (init_driver fails beyond that)
MaxSessions == 2
\* blocks of a task document, and parse() calls on it
MaxBlocks == 2
MaxParses == 2
\* largest timeout given to wait_for_completion, in seconds
\* close() calls on one handle after which cleanup() is not called again
MaxCloses == 2
MaxTimeout == 4

\* ------------------------------------------------------------------------
\* File names.  A file name is a sequence of tokens, so that the name the
\* organizer synthesizes for ("f", counter 1) and the base name of the
\* artifact called "f_1" are the same key, as they are on disk.
\* ------------------------------------------------------------------------
Digits == <<"0", "1", "2", "3", "4", "5", "6", "7", "8", "9">>

RECURSIVE Str(_)
Str(n) == IF n < 10 THEN <<Digits[n + 1]>>
          ELSE Str(n \div 10) \o <<Digits[(n % 10) + 1]>>

NameF  == <<"f">>
NameF1 == <<"f", "_", "1">>
ExtPng == <<"png">>
ExtTxt == <<"txt">>

\* f"{artifact_name}.{extension}"
FileName(artifact_name, extension) == artifact_name \o <<".">> \o extension

\* f"{base_name}_{counter}.{extension}"
SuffixedName(base_name, counter, extension) ==
    base_name \o <<"_">> \o Str(counter) \o <<".">> \o extension

\* ------------------------------------------------------------------------
\* State
\* ------------------------------------------------------------------------
VARIABLES
    store,          \* artifacts_dir: file name -> content
    staging,        \* download_dir:  file name -> content
    organized       \* results of the direct organize_artifact in order

fmvars == <<store, staging, organized>>

VARIABLES
    entry,          \* "run": AIAutomationOrchestrator.run, "main": CLI main()
    tasks,          \* the artifacts list handed to process_artifacts
    skip_existing,  \* argument of process_artifacts
    retry_attempts, \* config["retry_attempts"]
    pc,             \* position of the single thread of control
    i,              \* loop variable of "for i, artifact in enumerate(.., 1)"
    attempt,        \* loop variable of "for attempt in range(1, n + 1)"
    success,        \* local of process_artifacts
    successful,     \* counters of process_artifacts
    failed,
    skipped,
    providers,      \* self.providers, in insertion order: <<[name, h], ...>>
    handles,        \* provider objects whose driver was started
    provider,       \* local of process_artifact: index into handles, 0 = none
    downloaded_file,\* local of process_artifact
    ci,             \* position of the loop of cleanup
    pending         \* an exception is propagating through run's finally

\* The invocation of run() and the state of its MarkdownParser
VARIABLES
    run_no,         \* 1 in the first run() over the task document, 2 in a re-run
    content,        \* local of parse(): the text read from the document
    self_artifacts, \* MarkdownParser.artifacts
    returned        \* what each parse() call returned, in call order

docvars == <<run_no, content, self_artifacts, returned>>

\* load_config called on its own
VARIABLES
    config_file,    \* what config_path names: no file, an unreadable or a
                    \* malformed file, or the object its JSON text encodes
    config          \* what load_config returned, NoConfig before the call

cfgvars == <<config_file, config>>

\* One provider object of a session, from select_mode on, and the page of
\* the remote service it drives
VARIABLES
    provider_class, \* the provider class: "gemini", "chatgpt" or "claude"
    current_mode,   \* self.current_mode
    timeout,        \* argument of wait_for_completion, in seconds
    elapsed,        \* time.time() - start_time, in seconds
    page,           \* what the probes of the page find
    error           \* the exception being handled or raised, NoError if none

provvars == <<provider_class, current_mode, timeout, elapsed, page, error>>

\* History of the provider calls, read only by properties
VARIABLES
    polls,          \* iterations of the loop of wait_for_completion so far
    probeFailed,    \* a probe raised in the last iteration
    polledFinished, \* an iteration without a failing probe has looked at a
                    \* page whose generation was finished
    selected        \* the select_mode call: its argument, self.current_mode
                    \* before it, and the path it took; NoCall before it

provhist == <<polls, probeFailed, polledFinished, selected>>

unitvars == <<cfgvars, provvars, provhist>>

ctlvars == <<entry, docvars, unitvars, tasks, skip_existing, retry_attempts, pc, i,
             attempt, success, successful, failed, skipped, providers,
             handles, provider, downloaded_file, ci, pending>>

\* History of the run, written by the actions and read only by properties
VARIABLES
    counted,        \* per task: how often it was added to each counter
    nAttempts,      \* per task: number of process_artifact invocations
    firstOk,        \* per task: attempt number of the first True result, 0 = none
    trace,          \* steps of process_artifact entered in this attempt, in order
    clearError,     \* clear_download_directory logged an error in this attempt
    backoffs,       \* per task: attempt numbers followed by time.sleep(10)
    delays,         \* task positions followed by the inter-task sleep
    waitFailed,     \* some wait_for_completion has raised in this run
    closeRaised,    \* handles whose close() raised
    summary         \* the summary printed by process_artifacts, or NoSummary

histvars == <<counted, nAttempts, firstOk, trace, clearError, backoffs,
              delays,
              waitFailed, closeRaised, summary>>

vars == <<fmvars, ctlvars, histvars>>

NoConfig == [none |-> TRUE]
NoFile   == [file |-> "missing"]
NoError  == "no error"
NoPage   == [none |-> TRUE]
NoCall   == [mode |-> "none", before |-> "none", path |-> "none"]

\* no load_config call and no provider call is under way
UnitIdle ==
    /\ config_file = NoFile /\ config = NoConfig
    /\ provider_class = "none" /\ current_mode = "none" /\ timeout = 0 /\ elapsed = 0
    /\ page = NoPage /\ error = NoError
    /\ polls = 0 /\ probeFailed = FALSE /\ polledFinished = FALSE
    /\ selected = NoCall

Files(dir) == DOMAIN dir

\* a directory with one more file (an existing file of that name is replaced)
Put(dir, fname, data) == (fname :> data) @@ dir

\* a directory without the files in gone
Remove(dir, gone) == [f \in (DOMAIN dir) \ gone |-> dir[f]]

\* ------------------------------------------------------------------------
\* FileManager
\* ------------------------------------------------------------------------
\* variant: the path is built without the extension
get_artifact_pathBare(artifact_name, extension) == artifact_name

get_artifact_path(artifact_name, extension) == FileName(artifact_name, extension)

artifact_exists(st, artifact_name, extension) ==
    get_artifact_path(artifact_name, extension) \in Files(st)

\* variant: the loop increments the counter before it formats the name
RECURSIVE UniqueNameIncrementFirst(_, _, _, _)
UniqueNameIncrementFirst(st, base_name, counter, extension) ==
    IF SuffixedName(base_name, counter + 1, extension) \in Files(st)
    THEN UniqueNameIncrementFirst(st, base_name, counter + 1, extension)
    ELSE SuffixedName(base_name, counter + 1, extension)

\* the while loop of rename_and_move: counter, counter + 1, ... until free
RECURSIVE UniqueName(_, _, _, _)
UniqueName(st, base_name, counter, extension) ==
    IF SuffixedName(base_name, counter, extension) \in Files(st)
    THEN UniqueName(st, base_name, counter + 1, extension)
    ELSE SuffixedName(base_name, counter, extension)

\* variant: the destination is never checked for an existing file
DestFilenameUnchecked(st, artifact_name, extension) ==
    FileName(artifact_name, extension)

\* the destination rename_and_move chooses in the store st
DestFilename(st, artifact_name, extension) ==
    IF FileName(artifact_name, extension) \in Files(st)
    THEN UniqueName(st, artifact_name, 1, extension)
    ELSE FileName(artifact_name, extension)

NoPath == <<>>

\* variant: the file is copied into the store, then the call raises
rename_and_moveRaisesAfterCopy(st, stg, source_path, artifact_name, extension) ==
    IF source_path \notin Files(stg)
    THEN [store |-> st, staging |-> stg, ok |-> FALSE, path |-> NoPath]
    ELSE [store   |-> Put(st, DestFilename(st, artifact_name, extension),
                          stg[source_path]),
          staging |-> stg, ok |-> FALSE, path |-> NoPath]

\* rename_and_move(source_path, artifact_name, extension) on the directories
\* (st, stg): the directories afterwards and the returned path, or the error
rename_and_move(st, stg, source_path, artifact_name, extension) ==
    IF source_path \notin Files(stg)
    THEN [store |-> st, staging |-> stg, ok |-> FALSE, path |-> NoPath]
    ELSE LET dest == DestFilename(st, artifact_name, extension)
         IN  [store   |-> Put(st, dest, stg[source_path]),
              staging |-> Remove(stg, {source_path}),
              ok      |-> TRUE,
              path    |-> dest]

\* variant: the handler logs the error and returns normally
organize_artifactSwallows(st, stg, downloaded, artifact_name, extension) ==
    [rename_and_move(st, stg, downloaded, artifact_name, extension)
        EXCEPT !.ok = TRUE]

\* organize_artifact logs and re-raises: same outcome as rename_and_move
organize_artifact(st, stg, downloaded, artifact_name, extension) ==
    rename_and_move(st, stg, downloaded, artifact_name, extension)

\* ------------------------------------------------------------------------
\* Inputs of a run
\* ------------------------------------------------------------------------
\* a Provider line of the document names no provider class of get_provider
UnknownProvider == "midjourney"

\* variant: get_provider ends with a default class instead of "raise"
KnownProvidersWithDefault == {"gemini", "chatgpt", "claude", UnknownProvider}

\* the names get_provider has a class for
KnownProviders == {"gemini", "chatgpt", "claude"}

\* Artifact (markdown_parser.py); name and prompt play no part here
Artifact(provider_name, artifact_type, output_name, extension) ==
    [provider |-> provider_name, artifact_type |-> artifact_type,
     output_name |-> output_name, extension |-> extension]

\* the tasks the lists are drawn from: two backends, one of which cannot
\* produce the kind it is asked for, an output name that equals a suffixed
\* name of the other one, and a task for a backend get_provider does not know
TaskPool == {Artifact("gemini", "image", NameF, ExtPng),
             Artifact("claude", "image", NameF1, ExtPng),
             Artifact(UnknownProvider, "image", NameF1, ExtPng)}

TaskLists == UNION {[1..n -> TaskPool] : n \in 0..MaxTasks}

OldContent == <<0, 0>>

\* files an earlier run may have left in artifacts_dir
InitStores == {[f \in S |-> OldContent] :
                 S \in {{}, {FileName(NameF, ExtPng)},
                        {FileName(NameF, ExtPng), FileName(NameF1, ExtPng)}}}

ScreenshotFile == <<"error_screenshot", ".", "png">>
BrowserFile    == <<"download", ".", "png">>

\* files an earlier run may have left in download_dir
InitStagings == {[f \in S |-> OldContent] : S \in SUBSET {ScreenshotFile}}

\* nothing has been read from the document
NoContent == <<>>

NoSummary == [total |-> -1]
Zero3     == [succeeded |-> 0, failed |-> 0, skipped |-> 0]

Total == Len(tasks)
Task  == tasks[i]

\* ------------------------------------------------------------------------
\* markdown_parser.py.  A document is a sequence of lines, each ended by a
\* newline; a text is a sequence of tokens: words, " ", "\n", "-" and the
\* punctuation characters.  The two regular expressions are matched line
\* by line: with re.DOTALL a lazy group runs over as many lines as it takes
\* for the rest of the pattern to match.
\* ------------------------------------------------------------------------
HeadingLine(t)   == [kind |-> "heading",   val |-> t]
TypeLine(t)      == [kind |-> "type",      val |-> t]
ProviderLine(t)  == [kind |-> "provider",  val |-> t]
OutputLine(t)    == [kind |-> "output",    val |-> t]
ExtensionLine(t) == [kind |-> "extension", val |-> t]
FenceLine        == [kind |-> "fence",     val |-> <<>>]
TextLine(t)      == [kind |-> "text",      val |-> t]
BlankLine        == [kind |-> "blank",     val |-> <<>>]

\* the token of the backtick character
Backtick == "backtick"

\* the token of a letter outside ASCII (U+00E9), a word character for re
EAcute == "e-acute"

\* the characters of a line, without its newline
Raw(line) ==
    CASE line.kind = "heading"   -> <<"#", "#", "#", " ">> \o line.val
      [] line.kind = "type"      -> <<"*", "*", "Type", ":", "*", "*", " ">> \o line.val
      [] line.kind = "provider"  -> <<"*", "*", "Provider", ":", "*", "*", " ">> \o line.val
      [] line.kind = "output"    ->
            <<"*", "*", "Output", " ", "Name", ":", "*", "*", " ">> \o line.val
      [] line.kind = "extension" -> <<"*", "*", "Extension", ":", "*", "*", " ">> \o line.val
      [] line.kind = "fence"     -> <<Backtick, Backtick, Backtick>>
      [] OTHER                   -> line.val

\* the text of lines a..b
RECURSIVE JoinLines(_, _, _)
JoinLines(c, a, b) ==
    IF a > b THEN <<>>
    ELSE IF a = b THEN Raw(c[a])
    ELSE Raw(c[a]) \o <<"\n">> \o JoinLines(c, a + 1, b)

\* what a lazy group captures that starts behind the marker of line a and
\* ends with line b
Captured(c, a, b) ==
    IF b > a THEN c[a].val \o <<"\n">> \o JoinLines(c, a + 1, b) ELSE c[a].val

IsSpace(t) == t \in {" ", "\n"}

RECURSIVE LStrip(_)
LStrip(q) == IF q # <<>> /\ IsSpace(Head(q)) THEN LStrip(Tail(q)) ELSE q

RECURSIVE RStrip(_)
RStrip(q) ==
    IF q # <<>> /\ IsSpace(q[Len(q)]) THEN RStrip(SubSeq(q, 1, Len(q) - 1)) ELSE q

\* str.strip()
Strip(q) == RStrip(LStrip(q))

UpperWords == {"A", "B", "Type", "Provider", "Output", "Name", "Extension",
               "Image", "Gemini", "PNG", "Cover", "Art", "Caf"}

LowerWord(t) ==
    CASE t = "A" -> "a" [] t = "B" -> "b" [] t = "Type" -> "type"
      [] t = "Provider" -> "provider" [] t = "Output" -> "output"
      [] t = "Name" -> "name" [] t = "Extension" -> "extension"
      [] t = "Image" -> "image" [] t = "Gemini" -> "gemini"
      [] t = "PNG" -> "png" [] t = "Cover" -> "cover" [] t = "Art" -> "art"
      [] t = "Caf" -> "caf" [] OTHER -> t

\* str.lower()
Lower(q) == [k \in DOMAIN q |-> IF q[k] \in UpperWords THEN LowerWord(q[k]) ELSE q[k]]

Punctuation == {"#", "*", ":", "!", Backtick}

\* the first re.sub of _parse_simple_format: every character that is not
\* a word character, white space or a hyphen is removed
RECURSIVE DropPunctuation(_)
DropPunctuation(q) ==
    IF q = <<>> THEN <<>>
    ELSE IF Head(q) \in Punctuation THEN DropPunctuation(Tail(q))
    ELSE <<Head(q)>> \o DropPunctuation(Tail(q))

IsSeparator(t) == IsSpace(t) \/ t = "-"

\* the second re.sub: each run of white space and hyphens becomes "_"
RECURSIVE JoinWords(_)
JoinWords(q) ==
    IF q = <<>> THEN <<>>
    ELSE IF IsSeparator(Head(q))
         THEN IF Len(q) > 1 /\ IsSeparator(q[2])
              THEN JoinWords(Tail(q))
              ELSE <<"_">> \o JoinWords(Tail(q))
    ELSE <<Head(q)>> \o JoinWords(Tail(q))

Min(S) == CHOOSE x \in S : \A y \in S : x <= y

\* lines where the closing fence can end the prompt of a block opened at line f
Closers(c, f) == {cl \in (f + 2)..Len(c) : c[cl].kind = "fence"}

\* lines at or behind from where a fence opens a block that is closed
Openers(c, from) ==
    {f \in from..Len(c) : c[f].kind = "fence" /\ Closers(c, f) # {}}

\* _parse_structured_format.  A match that starts at heading line s: the
\* name runs to line k, lines k+1..k+3 are Type, Provider and Output Name,
\* the output name runs to the line before the Extension line e, and a
\* fenced block opens at or behind e+1.
StructuredEs(c, k) ==
    {e \in (k + 4)..Len(c) : c[e].kind = "extension" /\ Openers(c, e + 1) # {}}

StructuredKs(c, s) ==
    {k \in s..(Len(c) - 4) :
        /\ c[k + 1].kind = "type" /\ c[k + 2].kind = "provider"
        /\ c[k + 3].kind = "output"
        /\ StructuredEs(c, k) # {}}

StructuredMatch(c, s) ==
    LET k == Min(StructuredKs(c, s))
        e == Min(StructuredEs(c, k))
        f == Min(Openers(c, e + 1))
    IN  [start |-> s, last |-> k, ext |-> e, open |-> f,
         close |-> Min(Closers(c, f))]

\* pattern.findall: the leftmost match, then the scan goes on behind it
RECURSIVE StructuredScan(_, _)
StructuredScan(c, pos) ==
    LET starts == {s \in pos..Len(c) :
                      c[s].kind = "heading" /\ StructuredKs(c, s) # {}}
    IN  IF starts = {} THEN <<>>
        ELSE LET m == StructuredMatch(c, Min(starts))
             IN  <<m>> \o StructuredScan(c, m.close + 1)

StructuredArtifact(c, m) ==
    [name          |-> Strip(Captured(c, m.start, m.last)),
     artifact_type |-> Lower(Strip(c[m.last + 1].val)),
     provider      |-> Lower(Strip(c[m.last + 2].val)),
     output_name   |-> Strip(Captured(c, m.last + 3, m.ext - 1)),
     extension     |-> Lower(Strip(c[m.ext].val)),
     prompt        |-> Strip(JoinLines(c, m.open + 1, m.close - 1))]

parse_structured_format(c) ==
    LET ms == StructuredScan(c, 1)
    IN  [n \in DOMAIN ms |-> StructuredArtifact(c, ms[n])]

\* _parse_simple_format.  A match that starts at heading line s: the name
\* runs to line k and line k+1 opens a fenced block.
SimpleKs(c, s) ==
    {k \in s..(Len(c) - 1) : c[k + 1].kind = "fence" /\ Closers(c, k + 1) # {}}

SimpleMatch(c, s) ==
    LET k == Min(SimpleKs(c, s))
    IN  [start |-> s, last |-> k, open |-> k + 1,
         close |-> Min(Closers(c, k + 1))]

RECURSIVE SimpleScan(_, _)
SimpleScan(c, pos) ==
    LET starts == {s \in pos..Len(c) :
                      c[s].kind = "heading" /\ SimpleKs(c, s) # {}}
    IN  IF starts = {} THEN <<>>
        ELSE LET m == SimpleMatch(c, Min(starts))
             IN  <<m>> \o SimpleScan(c, m.close + 1)

\* output_name of a simple task
SimpleOutputName(name) == JoinWords(DropPunctuation(Lower(Strip(name))))

SimpleArtifact(c, m) ==
    [name          |-> Strip(Captured(c, m.start, m.last)),
     artifact_type |-> <<"image">>,
     provider      |-> <<"gemini">>,
     output_name   |-> SimpleOutputName(Captured(c, m.start, m.last)),
     extension     |-> <<"png">>,
     prompt        |-> Strip(JoinLines(c, m.open + 1, m.close - 1))]

\* "if any(a.name == name.strip() for a in artifacts)": artifacts is the
\* list this method is building
AlreadyParsed(artifacts, name) ==
    \E n \in DOMAIN artifacts : artifacts[n].name = Strip(name)

\* the loop over the matches; kept holds the matches that gave a task
RECURSIVE SimpleLoop(_, _, _, _)
SimpleLoop(c, ms, artifacts, kept) ==
    IF ms = <<>> THEN [artifacts |-> artifacts, kept |-> kept]
    ELSE IF AlreadyParsed(artifacts, Captured(c, Head(ms).start, Head(ms).last))
         THEN SimpleLoop(c, Tail(ms), artifacts, kept)
         ELSE SimpleLoop(c, Tail(ms), Append(artifacts, SimpleArtifact(c, Head(ms))),
                         Append(kept, Head(ms)))

\* the matches of the simple scan that gave a task
SimpleKept(c) == SimpleLoop(c, SimpleScan(c, 1), <<>>, <<>>).kept

parse_simple_format(c) == SimpleLoop(c, SimpleScan(c, 1), <<>>, <<>>).artifacts

\* parse(): self.artifacts is extended by both results and returned
parse(artifacts, c) ==
    artifacts \o parse_structured_format(c) \o parse_simple_format(c)

\* ------------------------------------------------------------------------
\* Documents: up to MaxBlocks blocks, well-formed and malformed
\* ------------------------------------------------------------------------
PromptLine == TextLine(<<"prompt">>)

StructuredBlock(heading, output_name) ==
    <<HeadingLine(heading), TypeLine(<<"Image">>), ProviderLine(<<"gemini">>),
      OutputLine(output_name), ExtensionLine(<<"png">>), BlankLine,
      FenceLine, PromptLine, FenceLine>>

MinimalBlock(heading) == <<HeadingLine(heading), FenceLine, PromptLine, FenceLine>>

\* a heading followed by prose
HeadingOnlyBlock(heading) == <<HeadingLine(heading), TextLine(<<"note">>)>>

\* a structured block without its Extension line
NoExtensionBlock(heading, output_name) ==
    <<HeadingLine(heading), TypeLine(<<"Image">>), ProviderLine(<<"gemini">>),
      OutputLine(output_name), BlankLine, FenceLine, PromptLine, FenceLine>>

\* a minimal block without its closing fence
UnclosedBlock(heading) == <<HeadingLine(heading), FenceLine, PromptLine>>

\* a minimal block whose fenced block holds one empty line
EmptyPromptBlock(heading) == <<HeadingLine(heading), FenceLine, BlankLine, FenceLine>>

BlockPool ==
    {StructuredBlock(<<"A">>, NameF), StructuredBlock(<<"B">>, NameF1),
     MinimalBlock(<<"A">>), MinimalBlock(<<"B">>),
     MinimalBlock(<<"Cover", " ", "Art", "!">>), MinimalBlock(<<"Caf", EAcute>>),
     MinimalBlock(<<"-", "A">>), EmptyPromptBlock(<<"B">>),
     HeadingOnlyBlock(<<"A">>), NoExtensionBlock(<<"B">>, NameF),
     UnclosedBlock(<<"A">>)}

RECURSIVE Flatten(_)
Flatten(blocks) ==
    IF blocks = <<>> THEN <<>> ELSE Head(blocks) \o Flatten(Tail(blocks))

Documents ==
    {Flatten(bs) : bs \in UNION {[1..n -> BlockPool] : n \in 0..MaxBlocks}}

\* the document of the end-to-end scenario: one structured block
OneBlockDocument == StructuredBlock(<<"A">>, NameF)

\* the documents run() is given
RunDocuments == {OneBlockDocument}

\* ------------------------------------------------------------------------
\* run() / main(): parse, initialize_providers
\* ------------------------------------------------------------------------
Init ==
    /\ entry \in {"run", "main"}
    /\ skip_existing \in BOOLEAN
    /\ retry_attempts \in 0..MaxRetry
    /\ store \in InitStores
    /\ staging \in InitStagings
    /\ organized = <<>>
    /\ tasks = <<>>
    /\ run_no = 1 /\ content = NoContent
    /\ self_artifacts = <<>> /\ returned = <<>>
    /\ UnitIdle
    /\ pc = "parse"
    /\ i = 0 /\ attempt = 0 /\ success = FALSE
    /\ successful = 0 /\ failed = 0 /\ skipped = 0
    /\ providers = <<>> /\ handles = <<>> /\ provider = 0
    /\ downloaded_file = NoPath
    /\ ci = 0 /\ pending = FALSE
    /\ counted = <<>> /\ nAttempts = <<>> /\ firstOk = <<>>
    /\ backoffs = <<>> /\ trace = <<>> /\ clearError = FALSE /\ delays = <<>>
    /\ waitFailed = FALSE /\ closeRaised = {} /\ summary = NoSummary

\* variant: run() has no finally clause
EscapeNoFinally ==
    pc' = "raised" /\ pending' = (entry = "run") /\ UNCHANGED ci

\* An exception leaves process_artifacts (or parse): run() logs it, runs
\* cleanup in its finally clause and re-raises; main() has no handler.
Escape ==
    IF entry = "run"
    THEN pc' = "cleanup" /\ ci' = 1 /\ pending' = TRUE
    ELSE pc' = "raised" /\ UNCHANGED <<ci, pending>>

\* "if not artifacts: return": run() still passes through its finally clause
ReturnNoArtifacts ==
    IF entry = "run"
    THEN pc' = "cleanup" /\ ci' = 1 /\ UNCHANGED pending
    ELSE pc' = "done" /\ UNCHANGED <<ci, pending>>

\* parser.parse() returns a task list (and main() filters it); the document
\* is left open, any list of TaskLists can be the result
ParseOk ==
    /\ pc = "parse"
    /\ \E ts \in TaskLists :
        /\ tasks' = ts
        /\ counted'   = [j \in 1..Len(ts) |-> Zero3]
        /\ nAttempts' = [j \in 1..Len(ts) |-> 0]
        /\ firstOk'   = [j \in 1..Len(ts) |-> 0]
        /\ backoffs'  = [j \in 1..Len(ts) |-> <<>>]
        /\ IF ts = <<>>
           THEN ReturnNoArtifacts
           ELSE pc' = "init_providers" /\ UNCHANGED <<ci, pending>>
    /\ UNCHANGED <<fmvars, entry, docvars, unitvars, skip_existing, retry_attempts, i, attempt,
                   success, successful, failed, skipped, providers, handles,
                   provider, downloaded_file, trace, clearError, delays, waitFailed,
                   closeRaised, summary>>

\* the Artifact of the batch loop for a parsed one
ToArtifact(a) ==
    Artifact(a.provider[1], a.artifact_type[1], a.output_name, a.extension)

\* parser.parse() on a new MarkdownParser reads the document and returns
\* what the two scans find in it
ParseDocument ==
    /\ pc = "parse"
    /\ \E d \in RunDocuments :
        LET r  == parse(<<>>, d)
            ts == [j \in DOMAIN r |-> ToArtifact(r[j])]
        IN  /\ content' = d
            /\ self_artifacts' = r
            /\ returned' = <<r>>
            /\ tasks' = ts
            /\ counted'   = [j \in 1..Len(ts) |-> Zero3]
            /\ nAttempts' = [j \in 1..Len(ts) |-> 0]
            /\ firstOk'   = [j \in 1..Len(ts) |-> 0]
            /\ backoffs'  = [j \in 1..Len(ts) |-> <<>>]
            /\ IF ts = <<>>
               THEN ReturnNoArtifacts
               ELSE pc' = "init_providers" /\ UNCHANGED <<ci, pending>>
    /\ UNCHANGED <<fmvars, entry, run_no, unitvars, skip_existing, retry_attempts, i,
                   attempt, success, successful, failed, skipped, providers,
                   handles, provider, downloaded_file, trace, clearError,
                   delays, waitFailed, closeRaised, summary>>

\* parser.parse() raises: the document cannot be read
ParseError ==
    /\ pc = "parse"
    /\ Escape
    /\ UNCHANGED <<fmvars, entry, docvars, unitvars, tasks, skip_existing, retry_attempts, i,
                   attempt, success, successful, failed, skipped, providers,
                   handles, provider, downloaded_file, histvars>>

\* initialize_providers(), then the prologue of process_artifacts
InitializeProviders ==
    /\ pc = "init_providers"
    /\ successful' = 0 /\ failed' = 0 /\ skipped' = 0
    /\ i' = 1
    /\ pc' = "loop"
    /\ UNCHANGED <<fmvars, entry, docvars, unitvars, tasks, skip_existing, retry_attempts,
                   attempt, success, providers, handles, provider,
                   downloaded_file, ci, pending, histvars>>

\* ------------------------------------------------------------------------
\* process_artifacts: the batch loop
\* ------------------------------------------------------------------------
\* variant: the existence test is negated
ShouldSkipInverted(t) ==
    skip_existing /\ ~artifact_exists(store, t.output_name, t.extension)

\* "skip_existing and self.file_manager.artifact_exists(...)"
ShouldSkip(t) ==
    skip_existing /\ artifact_exists(store, t.output_name, t.extension)

\* variant: range(1, retry_attempts + 2)
AttemptRangeOneMore == 1..(retry_attempts + 1)

\* range(1, retry_attempts + 1)
AttemptRange == 1..retry_attempts

\* variant: "if attempt <= retry_attempts"
BackoffDueInclusive == attempt <= retry_attempts

\* "if attempt < retry_attempts" before time.sleep(10)
BackoffDue == attempt < retry_attempts

\* variant: failed += 1 whatever the attempts returned
FailedDueAlways == TRUE

\* "if not success" before failed += 1
FailedDue == ~success

\* "if i < total" before the inter-task sleep
\* variant: the pause is also taken after the last task
DelayDueInclusive == i <= Total

DelayDue == i < Total

Count(field) == counted' = [counted EXCEPT ![i][field] = @ + 1]

\* variant: the task is passed over without skipped += 1
SkipExistingUncounted ==
    /\ pc = "loop" /\ i <= Total
    /\ ShouldSkip(Task)
    /\ Count("skipped")
    /\ i' = i + 1
    /\ pc' = "loop"
    /\ UNCHANGED <<fmvars, entry, docvars, unitvars, tasks, skip_existing, retry_attempts,
                   attempt, success, successful, failed, skipped, providers,
                   handles, provider, downloaded_file, ci, pending, nAttempts,
                   firstOk, trace, clearError, backoffs, delays, waitFailed,
                   closeRaised, summary>>

\* the task already exists: skipped += 1; continue
SkipExisting ==
    /\ pc = "loop" /\ i <= Total
    /\ ShouldSkip(Task)
    /\ skipped' = skipped + 1
    /\ Count("skipped")
    /\ i' = i + 1
    /\ pc' = "loop"
    /\ UNCHANGED <<fmvars, entry, docvars, unitvars, tasks, skip_existing, retry_attempts,
                   attempt, success, successful, failed, providers, handles,
                   provider, downloaded_file, ci, pending, nAttempts, firstOk,
                   trace, clearError, backoffs, delays, waitFailed, closeRaised,
                   summary>>

\* success = False, and the attempt loop is entered
StartTask ==
    /\ pc = "loop" /\ i <= Total
    /\ ~ShouldSkip(Task)
    /\ success' = FALSE
    /\ attempt' = 1
    /\ pc' = "attempt_loop"
    /\ UNCHANGED <<fmvars, entry, docvars, unitvars, tasks, skip_existing, retry_attempts, i,
                   successful, failed, skipped, providers, handles, provider,
                   downloaded_file, ci, pending, histvars>>

\* the next attempt: process_artifact(artifact) is invoked
BeginAttempt ==
    /\ pc = "attempt_loop"
    /\ attempt \in AttemptRange
    /\ nAttempts' = [nAttempts EXCEPT ![i] = @ + 1]
    /\ trace' = <<>>
    /\ clearError' = FALSE
    /\ provider' = 0
    /\ downloaded_file' = NoPath
    /\ pc' = "get_provider"
    /\ UNCHANGED <<fmvars, entry, docvars, unitvars, tasks, skip_existing, retry_attempts, i,
                   attempt, success, successful, failed, skipped, providers,
                   handles, ci, pending, counted, firstOk, backoffs,
                   delays, waitFailed, closeRaised, summary>>

\* the range is exhausted
AttemptsExhausted ==
    /\ pc = "attempt_loop"
    /\ attempt \notin AttemptRange
    /\ pc' = "after_attempts"
    /\ UNCHANGED <<fmvars, entry, docvars, unitvars, tasks, skip_existing, retry_attempts, i,
                   attempt, success, successful, failed, skipped, providers,
                   handles, provider, downloaded_file, ci, pending, histvars>>

\* "if success: successful += 1; break"
AttemptSucceeded ==
    /\ pc = "attempt_result"
    /\ success
    /\ successful' = successful + 1
    /\ Count("succeeded")
    /\ pc' = "after_attempts"
    /\ trace' = <<>> /\ clearError' = FALSE
    /\ UNCHANGED <<fmvars, entry, docvars, unitvars, tasks, skip_existing, retry_attempts, i,
                   attempt, success, failed, skipped, providers, handles,
                   provider, downloaded_file, ci, pending, nAttempts, firstOk,
                   backoffs, delays, waitFailed, closeRaised, summary>>

\* "else: if attempt < retry_attempts: ... time.sleep(10)"
AttemptFailed ==
    /\ pc = "attempt_result"
    /\ ~success
    /\ IF BackoffDue
       THEN pc' = "backoff" /\ UNCHANGED attempt
       ELSE pc' = "attempt_loop" /\ attempt' = attempt + 1
    /\ trace' = <<>> /\ clearError' = FALSE
    /\ UNCHANGED <<fmvars, entry, docvars, unitvars, tasks, skip_existing, retry_attempts, i,
                   success, successful, failed, skipped, providers, handles,
                   provider, downloaded_file, ci, pending, counted, nAttempts,
                   firstOk, backoffs, delays, waitFailed, closeRaised,
                   summary>>

\* time.sleep(10) returns
Backoff ==
    /\ pc = "backoff"
    /\ backoffs' = [backoffs EXCEPT ![i] = Append(@, attempt)]
    /\ attempt' = attempt + 1
    /\ pc' = "attempt_loop"
    /\ UNCHANGED <<fmvars, entry, docvars, unitvars, tasks, skip_existing, retry_attempts, i,
                   success, successful, failed, skipped, providers, handles,
                   provider, downloaded_file, ci, pending, counted, nAttempts,
                   firstOk, trace, clearError, delays, waitFailed, closeRaised,
                   summary>>

\* "if not success: failed += 1", then "if i < total" towards the delay
AfterAttempts ==
    /\ pc = "after_attempts"
    /\ IF FailedDue
       THEN failed' = failed + 1 /\ Count("failed")
       ELSE UNCHANGED <<failed, counted>>
    /\ IF DelayDue
       THEN pc' = "delay" /\ UNCHANGED i
       ELSE pc' = "loop" /\ i' = i + 1
    /\ UNCHANGED <<fmvars, entry, docvars, unitvars, tasks, skip_existing, retry_attempts,
                   attempt, success, successful, skipped, providers, handles,
                   provider, downloaded_file, ci, pending, nAttempts, firstOk,
                   trace, clearError, backoffs, delays, waitFailed, closeRaised,
                   summary>>

\* time.sleep(delay) returns
Delay ==
    /\ pc = "delay"
    /\ delays' = Append(delays, i)
    /\ i' = i + 1
    /\ pc' = "loop"
    /\ UNCHANGED <<fmvars, entry, docvars, unitvars, tasks, skip_existing, retry_attempts,
                   attempt, success, successful, failed, skipped, providers,
                   handles, provider, downloaded_file, ci, pending, counted,
                   nAttempts, firstOk, trace, clearError, backoffs, waitFailed,
                   closeRaised, summary>>

\* A sleep of the batch loop is interrupted (KeyboardInterrupt is not an
\* Exception, nothing in process_artifacts catches it).
Interrupted ==
    /\ pc \in {"backoff", "delay"}
    /\ Escape
    /\ UNCHANGED <<fmvars, entry, docvars, unitvars, tasks, skip_existing, retry_attempts, i,
                   attempt, success, successful, failed, skipped, providers,
                   handles, provider, downloaded_file, histvars>>

\* the loop is over: the summary is printed and process_artifacts returns;
\* run() goes on to its finally clause, main() to orchestrator.cleanup()
Summary ==
    /\ pc = "loop" /\ i > Total
    /\ summary' = [total |-> Total, successful |-> successful,
                   failed |-> failed, skipped |-> skipped]
    /\ pc' = "cleanup"
    /\ ci' = 1
    /\ UNCHANGED <<fmvars, entry, docvars, unitvars, tasks, skip_existing, retry_attempts, i,
                   attempt, success, successful, failed, skipped, providers,
                   handles, provider, downloaded_file, pending, counted,
                   nAttempts, firstOk, trace, clearError, backoffs, delays,
                   waitFailed, closeRaised>>

\* ------------------------------------------------------------------------
\* process_artifact: one attempt
\* ------------------------------------------------------------------------
\* variables no step of process_artifact writes
loopvars == <<entry, docvars, unitvars, tasks, skip_existing, retry_attempts, i, attempt,
              successful, failed, skipped>>
runhist  == <<counted, nAttempts, backoffs, delays, closeRaised, summary>>

\* variant: the handler re-raises instead of returning False
ExceptReraise ==
    /\ success' = FALSE
    /\ Escape

\* "except Exception as e: ... return False"
ExceptReturnFalse ==
    /\ success' = FALSE
    /\ pc' = "attempt_result"
    /\ UNCHANGED <<ci, pending>>

\* the step completed, the next statement of the try block is reached
Goto(next) ==
    /\ pc' = next
    /\ UNCHANGED <<success, ci, pending>>

\* variant: the step is invoked twice
EnterTwice(step) == trace' = Append(Append(trace, step), step)

Enter(step) == trace' = Append(trace, step)

\* position of provider_name in self.providers, 0 when absent
RECURSIVE Lookup(_, _, _)
Lookup(ps, provider_name, k) ==
    IF k > Len(ps) THEN 0
    ELSE IF ps[k].name = provider_name THEN k
    ELSE Lookup(ps, provider_name, k + 1)

\* variant: the cache is never consulted
CachedNever(provider_name) == FALSE

Cached(provider_name) == Lookup(providers, provider_name, 1) # 0

NewHandle(provider_name) ==
    [backend |-> provider_name, current_mode |-> "none", closes |-> 0]

\* get_provider: "if provider_name in self.providers: return ..."
GetProviderCached ==
    /\ pc = "get_provider"
    /\ Cached(Task.provider)
    /\ Enter("get_provider")
    /\ provider' = providers[Lookup(providers, Task.provider, 1)].h
    /\ Goto("clear")
    /\ UNCHANGED <<fmvars, loopvars, runhist, providers, handles,
                   downloaded_file, firstOk, clearError, waitFailed>>

\* init_driver raises or starts a browser; login then raises or returns
InitDriverOutcomes ==
    IF Len(handles) < MaxSessions
    THEN {"init_driver_raises", "login_raises", "ok"}
    ELSE {"init_driver_raises"}

\* variant: the handle is stored in self.providers before login is called
InsertedBeforeLogin(outcome) == outcome \in {"login_raises", "ok"}

\* "self.providers[provider_name] = provider" follows init_driver and login
Inserted(outcome) == outcome = "ok"

\* get_provider creating the provider: unknown name, init_driver raising,
\* login raising after the driver was started, or the handle is cached
GetProviderNew ==
    /\ pc = "get_provider"
    /\ ~Cached(Task.provider)
    /\ Enter("get_provider")
    /\ IF Task.provider \notin KnownProviders
       THEN /\ ExceptReturnFalse
            /\ UNCHANGED <<providers, handles, provider>>
       ELSE \E outcome \in InitDriverOutcomes :
            /\ handles' = IF outcome = "init_driver_raises" THEN handles
                          ELSE Append(handles, NewHandle(Task.provider))
            /\ providers' = IF Inserted(outcome)
                            THEN Append(providers,
                                   [name |-> Task.provider, h |-> Len(handles) + 1])
                            ELSE providers
            /\ IF outcome = "ok"
               THEN /\ provider' = Len(handles) + 1
                    /\ Goto("clear")
               ELSE /\ ExceptReturnFalse
                    /\ UNCHANGED provider
    /\ UNCHANGED <<fmvars, loopvars, runhist, downloaded_file, firstOk,
                   clearError, waitFailed>>

\* clear_download_directory: every regular file is removed, or an error is
\* caught and logged after some of the files were removed
ClearOutcomes(stg) == {Remove(stg, gone) : gone \in SUBSET Files(stg)}

ClearDownloadDirectory ==
    /\ pc = "clear"
    /\ Enter("clear_download_directory")
    /\ \E after \in ClearOutcomes(staging) :
        /\ staging' = after
        /\ clearError' = (Files(after) # {})
    /\ Goto("select_mode")
    /\ UNCHANGED <<store, organized, loopvars, runhist, providers, handles,
                   provider, downloaded_file, firstOk, waitFailed>>

\* what select_mode leaves in current_mode
ModeAfterSelect(backend, mode) == mode

\* variant: ClaudeProvider accepts every mode
SelectModeNeverRaises(backend, mode) == FALSE

\* select_mode raises: ClaudeProvider asked for an image
SelectModeRaises(backend, mode) == backend = "claude" /\ mode = "image"

SelectMode ==
    /\ pc = "select_mode"
    /\ Enter("select_mode")
    /\ handles' = [handles EXCEPT ![provider].current_mode =
                      ModeAfterSelect(handles[provider].backend,
                                      Task.artifact_type)]
    /\ IF SelectModeRaises(handles[provider].backend, Task.artifact_type)
       THEN ExceptReturnFalse
       ELSE Goto("send_prompt")
    /\ UNCHANGED <<fmvars, loopvars, runhist, providers, provider,
                   downloaded_file, firstOk, clearError, waitFailed>>

\* send_prompt returns, or raises (input field not found, ...); after
\* driver.quit() no probe finds the input field
SendPromptRaises(h) == IF h.closes > 0 THEN {TRUE} ELSE BOOLEAN

SendPrompt ==
    /\ pc = "send_prompt"
    /\ Enter("send_prompt")
    /\ \E raises \in SendPromptRaises(handles[provider]) :
        IF raises THEN ExceptReturnFalse ELSE Goto("wait_for_completion")
    /\ UNCHANGED <<fmvars, loopvars, runhist, providers, handles, provider,
                   downloaded_file, firstOk, clearError, waitFailed>>

\* wait_for_completion returns, or raises TimeoutError
WaitForCompletion ==
    /\ pc = "wait_for_completion"
    /\ Enter("wait_for_completion")
    /\ \E raises \in BOOLEAN :
        /\ waitFailed' = (waitFailed \/ raises)
        /\ IF raises THEN ExceptReturnFalse ELSE Goto("download_artifact")
    /\ UNCHANGED <<fmvars, loopvars, runhist, providers, handles, provider,
                   downloaded_file, firstOk, clearError>>

\* content of the file generated for attempt a of task j
NewContent(j, a) == <<j, a>>

\* the file download_artifact leaves in download_dir
DownloadName(mode, artifact_name) ==
    IF mode = "image" THEN BrowserFile ELSE FileName(artifact_name, ExtTxt)

\* download_artifact returns the path of a file in download_dir, or raises
\* after trying to save error_screenshot.png; the file it returns was listed
\* or written in download_dir, and nothing checks that it is still there
\* when organize_artifact runs ("returns_gone")
DownloadArtifact ==
    /\ pc = "download_artifact"
    /\ Enter("download_artifact")
    /\ \E outcome \in {"ok", "returns_gone", "raises", "raises_no_screenshot"} :
        CASE outcome = "ok" ->
               LET f == DownloadName(handles[provider].current_mode,
                                     Task.output_name)
               IN  /\ staging' = Put(staging, f, NewContent(i, attempt))
                   /\ downloaded_file' = f
                   /\ Goto("organize_artifact")
          [] outcome = "returns_gone" ->
               LET f == DownloadName(handles[provider].current_mode,
                                     Task.output_name)
               IN  /\ staging' = Remove(staging, {f})
                   /\ downloaded_file' = f
                   /\ Goto("organize_artifact")
          [] outcome = "raises" ->
               /\ staging' = Put(staging, ScreenshotFile, OldContent)
               /\ ExceptReturnFalse
               /\ UNCHANGED downloaded_file
          [] outcome = "raises_no_screenshot" ->
               /\ ExceptReturnFalse
               /\ UNCHANGED <<staging, downloaded_file>>
    /\ UNCHANGED <<store, organized, loopvars, runhist, providers, handles,
                   provider, firstOk, clearError, waitFailed>>

\* organize_artifact, then "return True"
OrganizeArtifact ==
    /\ pc = "organize_artifact"
    /\ Enter("organize_artifact")
    /\ LET r == organize_artifact(store, staging, downloaded_file,
                                  Task.output_name, Task.extension)
       IN  /\ store' = r.store
           /\ staging' = r.staging
           /\ IF r.ok
              THEN /\ success' = TRUE
                   /\ firstOk' = [firstOk EXCEPT ![i] = IF @ = 0 THEN attempt ELSE @]
                   /\ pc' = "attempt_result"
                   /\ UNCHANGED <<ci, pending>>
              ELSE /\ ExceptReturnFalse
                   /\ UNCHANGED firstOk
    /\ UNCHANGED <<organized, loopvars, runhist, providers, handles, provider,
                   downloaded_file, clearError, waitFailed>>

\* ------------------------------------------------------------------------
\* cleanup
\* ------------------------------------------------------------------------
\* variant: the exception of close() leaves cleanup
CloseExceptPropagates ==
    /\ pc' = "raised"
    /\ UNCHANGED <<ci, pending>>

\* "except Exception as e: logger.error(...)": the loop goes on
CloseExcept ==
    /\ ci' = ci + 1
    /\ UNCHANGED <<pc, pending>>

\* provider.close() of the next cached provider returns
CloseProvider ==
    /\ pc = "cleanup" /\ ci <= Len(providers)
    /\ handles' = [handles EXCEPT ![providers[ci].h].closes = @ + 1]
    /\ ci' = ci + 1
    /\ UNCHANGED <<fmvars, loopvars, pc, success, providers, provider,
                   downloaded_file, pending, counted, nAttempts, firstOk,
                   trace, clearError, backoffs, delays, waitFailed,
                   closeRaised, summary>>

\* provider.close() of the next cached provider raises (driver.quit fails)
CloseProviderRaises ==
    /\ pc = "cleanup" /\ ci <= Len(providers)
    /\ handles' = [handles EXCEPT ![providers[ci].h].closes = @ + 1]
    /\ closeRaised' = closeRaised \cup {providers[ci].h}
    /\ CloseExcept
    /\ UNCHANGED <<fmvars, loopvars, success, providers, provider,
                   downloaded_file, counted, nAttempts, firstOk, trace,
                   clearError, backoffs, delays, waitFailed, summary>>

\* cleanup returns: the caller returns, or run() re-raises
CleanupDone ==
    /\ pc = "cleanup" /\ ci > Len(providers)
    /\ pc' = IF pending THEN "raised" ELSE "done"
    /\ UNCHANGED <<fmvars, loopvars, success, providers, handles, provider,
                   downloaded_file, ci, pending, histvars>>

\* The tool is started again on the unchanged document, with skip_existing,
\* after a run that counted no task as Failed: a new orchestrator without
\* providers, the same task list, the store and the download directory as
\* the first run left them.
Rerun ==
    /\ pc = "done" /\ run_no = 1
    /\ tasks # <<>>
    /\ summary # NoSummary /\ summary.failed = 0
    /\ run_no' = 2
    /\ skip_existing' = TRUE
    /\ pc' = "init_providers"
    /\ i' = 0 /\ attempt' = 0 /\ success' = FALSE
    /\ successful' = 0 /\ failed' = 0 /\ skipped' = 0
    /\ providers' = <<>> /\ handles' = <<>> /\ provider' = 0
    /\ downloaded_file' = NoPath
    /\ ci' = 0 /\ pending' = FALSE
    /\ counted'   = [j \in 1..Len(tasks) |-> Zero3]
    /\ nAttempts' = [j \in 1..Len(tasks) |-> 0]
    /\ firstOk'   = [j \in 1..Len(tasks) |-> 0]
    /\ backoffs'  = [j \in 1..Len(tasks) |-> <<>>]
    /\ trace' = <<>> /\ clearError' = FALSE /\ delays' = <<>>
    /\ waitFailed' = FALSE /\ closeRaised' = {} /\ summary' = NoSummary
    /\ UNCHANGED <<fmvars, entry, content, self_artifacts, returned, unitvars, tasks,
                   retry_attempts>>

Next ==
    \/ ParseOk \/ ParseDocument \/ ParseError \/ InitializeProviders
    \/ SkipExisting \/ StartTask \/ BeginAttempt \/ AttemptsExhausted
    \/ GetProviderCached \/ GetProviderNew \/ ClearDownloadDirectory
    \/ SelectMode \/ SendPrompt \/ WaitForCompletion \/ DownloadArtifact
    \/ OrganizeArtifact
    \/ AttemptSucceeded \/ AttemptFailed \/ Backoff \/ AfterAttempts \/ Delay
    \/ Interrupted \/ Summary
    \/ CloseProvider \/ CloseProviderRaises \/ CleanupDone
    \/ Rerun

Spec == Init /\ [][Next]_vars

\* ------------------------------------------------------------------------
\* One orchestrator object used for more than one call: run() again after
\* run() has ended, cleanup() again after it has returned
\* ------------------------------------------------------------------------
\* run() is called again on the same orchestrator and the same document:
\* self.providers is as cleanup left it
RunAgain ==
    /\ pc \in {"done", "raised"} /\ entry = "run" /\ run_no = 1
    /\ tasks # <<>>
    /\ run_no' = 2
    /\ pc' = "init_providers"
    /\ i' = 0 /\ attempt' = 0 /\ success' = FALSE
    /\ successful' = 0 /\ failed' = 0 /\ skipped' = 0
    /\ provider' = 0 /\ downloaded_file' = NoPath
    /\ ci' = 0 /\ pending' = FALSE
    /\ counted'   = [j \in 1..Len(tasks) |-> Zero3]
    /\ nAttempts' = [j \in 1..Len(tasks) |-> 0]
    /\ firstOk'   = [j \in 1..Len(tasks) |-> 0]
    /\ backoffs'  = [j \in 1..Len(tasks) |-> <<>>]
    /\ trace' = <<>> /\ clearError' = FALSE /\ delays' = <<>>
    /\ waitFailed' = FALSE /\ closeRaised' = {} /\ summary' = NoSummary
    /\ UNCHANGED <<fmvars, entry, content, self_artifacts, returned, unitvars,
                   tasks, skip_existing, retry_attempts, providers, handles>>

\* cleanup() is called again on the same orchestrator
CleanupAgain ==
    /\ pc \in {"done", "raised"} /\ entry = "run"
    /\ providers # <<>>
    /\ \A k \in DOMAIN providers : handles[providers[k].h].closes < MaxCloses
    /\ pc' = "cleanup" /\ ci' = 1 /\ pending' = FALSE
    /\ UNCHANGED <<fmvars, loopvars, success, providers, handles, provider,
                   downloaded_file, histvars>>

NextReuse == Next \/ RunAgain \/ CleanupAgain

SpecReuse == Init /\ [][NextReuse]_vars

\* ------------------------------------------------------------------------
\* The file manager called directly: any sequence of organize_artifact and
\* rename_and_move calls on a store and a download directory
\* ------------------------------------------------------------------------
SourceFile(k) == <<"src">> \o Str(k) \o <<".", "png">>
MissingFile   == <<"missing", ".", "png">>

FMNames == {NameF, NameF1}

FMInitStores == {[f \in S |-> OldContent] :
                   S \in SUBSET {FileName(NameF, ExtPng),
                                 SuffixedName(NameF, 1, ExtPng),
                                 SuffixedName(NameF, 2, ExtPng)}}

InitFM ==
    /\ store \in FMInitStores
    /\ staging = [f \in {SourceFile(k) : k \in 1..MaxCalls} |->
                    <<0, CHOOSE k \in 1..MaxCalls : f = SourceFile(k)>>]
    /\ organized = <<>>
    /\ entry = "fm" /\ skip_existing = FALSE /\ retry_attempts = 0
    /\ tasks = <<>>
    /\ run_no = 1 /\ content = NoContent
    /\ self_artifacts = <<>> /\ returned = <<>>
    /\ UnitIdle
    /\ pc = "fm"
    /\ i = 0 /\ attempt = 0 /\ success = FALSE
    /\ successful = 0 /\ failed = 0 /\ skipped = 0
    /\ providers = <<>> /\ handles = <<>> /\ provider = 0
    /\ downloaded_file = NoPath
    /\ ci = 0 /\ pending = FALSE
    /\ counted = <<>> /\ nAttempts = <<>> /\ firstOk = <<>>
    /\ backoffs = <<>> /\ trace = <<>> /\ clearError = FALSE /\ delays = <<>>
    /\ waitFailed = FALSE /\ closeRaised = {} /\ summary = NoSummary

\* what a call was given, what the store held, and what the call returned
CallRecord(op, source_path, artifact_name, extension, r) ==
    [op |-> op, source |-> source_path, name |-> artifact_name, ext |-> extension,
     before |-> Files(store), ok |-> r.ok, path |-> r.path]

FMRenameAndMove ==
    /\ pc = "fm"
    /\ Len(organized) < MaxCalls
    /\ \E source_path \in Files(staging) \cup {MissingFile},
          artifact_name \in FMNames :
        LET r == rename_and_move(store, staging, source_path,
                                 artifact_name, ExtPng)
        IN  /\ store' = r.store
            /\ staging' = r.staging
            /\ organized' = Append(organized,
                   CallRecord("rename_and_move", source_path,
                              artifact_name, ExtPng, r))
    /\ UNCHANGED <<ctlvars, histvars>>

FMOrganizeArtifact ==
    /\ pc = "fm"
    /\ Len(organized) < MaxCalls
    /\ \E source_path \in Files(staging) \cup {MissingFile},
          artifact_name \in FMNames :
        LET r == organize_artifact(store, staging, source_path,
                                   artifact_name, ExtPng)
        IN  /\ store' = r.store
            /\ staging' = r.staging
            /\ organized' = Append(organized,
                   CallRecord("organize_artifact", source_path,
                              artifact_name, ExtPng, r))
    /\ UNCHANGED <<ctlvars, histvars>>

NextFM == FMRenameAndMove \/ FMOrganizeArtifact

SpecFM == InitFM /\ [][NextFM]_vars

\* ------------------------------------------------------------------------
\* The parser called directly: parse() any number of times on one
\* MarkdownParser, and new MarkdownParser instances for the same file
\* ------------------------------------------------------------------------
orchvars == <<entry, tasks, skip_existing, retry_attempts, pc, i, attempt,
              success, successful, failed, skipped, providers, handles,
              provider, downloaded_file, ci, pending>>

InitParse ==
    /\ content \in Documents
    /\ self_artifacts = <<>> /\ returned = <<>>
    /\ UnitIdle
    /\ run_no = 1
    /\ store = <<>> /\ staging = <<>> /\ organized = <<>>
    /\ entry = "parser" /\ skip_existing = FALSE /\ retry_attempts = 0
    /\ tasks = <<>>
    /\ pc = "parser"
    /\ i = 0 /\ attempt = 0 /\ success = FALSE
    /\ successful = 0 /\ failed = 0 /\ skipped = 0
    /\ providers = <<>> /\ handles = <<>> /\ provider = 0
    /\ downloaded_file = NoPath
    /\ ci = 0 /\ pending = FALSE
    /\ counted = <<>> /\ nAttempts = <<>> /\ firstOk = <<>>
    /\ backoffs = <<>> /\ trace = <<>> /\ clearError = FALSE /\ delays = <<>>
    /\ waitFailed = FALSE /\ closeRaised = {} /\ summary = NoSummary

\* parser.parse() on the current instance
Parse ==
    /\ pc = "parser"
    /\ Len(returned) < MaxParses
    /\ self_artifacts' = parse(self_artifacts, content)
    /\ returned' = Append(returned, self_artifacts')
    /\ UNCHANGED <<fmvars, orchvars, histvars, unitvars, run_no, content>>

\* MarkdownParser(file_path): a new instance, self.artifacts = []
NewMarkdownParser ==
    /\ pc = "parser"
    /\ self_artifacts # <<>>
    /\ self_artifacts' = <<>>
    /\ UNCHANGED <<fmvars, orchvars, histvars, unitvars, run_no, content, returned>>

NextParse == Parse \/ NewMarkdownParser

SpecParse == InitParse /\ [][NextParse]_vars

\* ------------------------------------------------------------------------
\* Nothing of the orchestrator, the parser or the file manager is under way
\* ------------------------------------------------------------------------
OrchIdle ==
    /\ store = <<>> /\ staging = <<>> /\ organized = <<>>
    /\ skip_existing = FALSE /\ retry_attempts = 0
    /\ tasks = <<>>
    /\ run_no = 1 /\ content = NoContent
    /\ self_artifacts = <<>> /\ returned = <<>>
    /\ i = 0 /\ attempt = 0 /\ success = FALSE
    /\ successful = 0 /\ failed = 0 /\ skipped = 0
    /\ providers = <<>> /\ handles = <<>> /\ provider = 0
    /\ downloaded_file = NoPath
    /\ ci = 0 /\ pending = FALSE
    /\ counted = <<>> /\ nAttempts = <<>> /\ firstOk = <<>>
    /\ backoffs = <<>> /\ trace = <<>> /\ clearError = FALSE /\ delays = <<>>
    /\ waitFailed = FALSE /\ closeRaised = {} /\ summary = NoSummary

\* ------------------------------------------------------------------------
\* load_config called directly, then the --headless override of main()
\* ------------------------------------------------------------------------
\* open() raises an error other than FileNotFoundError
Unreadable == [file |-> "unreadable"]
\* json.load raises JSONDecodeError
Malformed  == [file |-> "malformed"]

get_default_config ==
    [download_dir |-> "./downloads", artifacts_dir |-> "./artifacts",
     headless |-> FALSE, timeout |-> 300, retry_attempts |-> 3,
     delay_between_artifacts |-> 5]

\* the values a configuration file gives to a key
FileValues ==
    [headless |-> {FALSE, TRUE}, timeout |-> {300, 60},
     retry_attempts |-> {3, 1}, delay_between_artifacts |-> {5, 0}]

\* a key left out, or the key with one of its values
Entries(k) == {<<>>} \cup {k :> v : v \in FileValues[k]}

\* the JSON objects of the configuration files: any subset of the keys
ConfigObjects ==
    {h @@ t @@ r @@ d :
        h \in Entries("headless"), t \in Entries("timeout"),
        r \in Entries("retry_attempts"), d \in Entries("delay_between_artifacts")}

ConfigFiles == {NoFile, Unreadable, Malformed} \cup ConfigObjects

\* variant: only the missing file gives the defaults
load_configStrict(path) ==
    IF path = NoFile THEN get_default_config
    ELSE IF path \in {Unreadable, Malformed} THEN NoConfig
    ELSE path

\* load_config(config_path): the object of the file, or the defaults after
\* FileNotFoundError and after any other exception
load_config(path) ==
    IF path = NoFile THEN get_default_config
    ELSE IF path \in {Unreadable, Malformed} THEN get_default_config
    ELSE path

InitConfig ==
    /\ config_file \in ConfigFiles
    /\ config = NoConfig
    /\ provider_class = "none" /\ current_mode = "none" /\ timeout = 0
    /\ elapsed = 0 /\ page = NoPage /\ error = NoError
    /\ polls = 0 /\ probeFailed = FALSE /\ polledFinished = FALSE
    /\ selected = NoCall
    /\ entry = "config" /\ pc = "config"
    /\ OrchIdle

\* AIAutomationOrchestrator(config_path): self.config = load_config(..)
LoadConfig ==
    /\ pc = "config"
    /\ config' = load_config(config_file)
    /\ pc' = "config_loaded"
    /\ UNCHANGED <<fmvars, entry, docvars, config_file, provvars, provhist,
                   tasks, skip_existing, retry_attempts, i, attempt, success,
                   successful, failed, skipped, providers, handles, provider,
                   downloaded_file, ci, pending, histvars>>

\* main(): "if args.headless: orchestrator.config['headless'] = True"
OverrideHeadless ==
    /\ pc = "config_loaded"
    /\ config' = [k \in DOMAIN config \cup {"headless"} |->
                     IF k = "headless" THEN TRUE ELSE config[k]]
    /\ pc' = "config_done"
    /\ UNCHANGED <<fmvars, entry, docvars, config_file, provvars, provhist,
                   tasks, skip_existing, retry_attempts, i, attempt, success,
                   successful, failed, skipped, providers, handles, provider,
                   downloaded_file, ci, pending, histvars>>

NextConfig == LoadConfig \/ OverrideHeadless

SpecConfig == InitConfig /\ [][NextConfig]_vars

\* ------------------------------------------------------------------------
\* One provider, called as process_artifact calls it after select_mode and
\* send_prompt: wait_for_completion(timeout), then download_artifact
\* ------------------------------------------------------------------------
Modes == {"image", "text", "code"}

\* what the probes find: a Stop button (or, for Claude, a typing or loading
\* element) is displayed, the input field is enabled (for ChatGPT also the
\* Regenerate button), an image generated for the prompt just sent is
\* shown, an image generated for an earlier prompt of the session is shown
\* (the page is loaded once, in login, and keeps the whole conversation)
Pages == [stop : BOOLEAN, input : BOOLEAN, image : BOOLEAN, earlier : BOOLEAN]

\* the probes for images look at every img element of the page
Shown(pg) == pg.image \/ pg.earlier

\* the generation has finished: nothing busy, the input enabled again, and
\* an image on the page exactly for the image kind
Finished(mode, pg) ==
    ~pg.stop /\ pg.input /\ (pg.image <=> mode = "image")

\* One iteration of the loop of wait_for_completion: the seconds it sleeps,
\* whether it returns and whether an exception leaves it.  fails: a probe
\* raised into the handler around the loop body.
GeminiPoll(mode, pg, fails) ==
    IF fails \/ pg.stop THEN [sleep |-> 2, returns |-> FALSE, raises |-> FALSE]
    ELSE IF mode = "image" /\ Shown(pg)
    THEN [sleep |-> 3, returns |-> TRUE, raises |-> FALSE]
    ELSE IF pg.input
    THEN [sleep |-> 4, returns |-> Shown(pg), raises |-> FALSE]
    ELSE [sleep |-> 2, returns |-> FALSE, raises |-> FALSE]

ChatGPTPoll(mode, pg, fails) ==
    IF fails \/ pg.stop THEN [sleep |-> 2, returns |-> FALSE, raises |-> FALSE]
    ELSE IF mode = "image"
    THEN [sleep |-> 2, returns |-> Shown(pg), raises |-> FALSE]
    ELSE IF pg.input
    THEN [sleep |-> 1, returns |-> TRUE, raises |-> FALSE]
    ELSE [sleep |-> 2, returns |-> FALSE, raises |-> FALSE]

ClaudePoll(mode, pg, fails) ==
    IF fails \/ pg.stop THEN [sleep |-> 2, returns |-> FALSE, raises |-> FALSE]
    ELSE IF pg.input
    THEN [sleep |-> 3, returns |-> TRUE, raises |-> FALSE]
    ELSE [sleep |-> 2, returns |-> FALSE, raises |-> FALSE]

\* variant: the exception of a probe leaves wait_for_completion
PollRaisesOnError(class, mode, pg, fails) ==
    [sleep |-> 2, returns |-> FALSE, raises |-> fails]

Poll(class, mode, pg, fails) ==
    CASE class = "gemini"  -> GeminiPoll(mode, pg, fails)
      [] class = "chatgpt" -> ChatGPTPoll(mode, pg, fails)
      [] class = "claude"  -> ClaudePoll(mode, pg, fails)

\* the ways through select_mode: the mode controls were found and clicked,
\* they were not found, a probe raised into the handler; "direct" where
\* select_mode touches no control
SelectPaths(class, mode) ==
    IF class \in {"gemini", "chatgpt"} /\ mode = "image"
    THEN {"activated", "not_found", "error"}
    ELSE {"direct"}

\* variant: self.current_mode is assigned only where the controls were found
select_modeKeepsOnMiss(class, old, mode, path) ==
    IF path \in {"not_found", "error"} THEN old ELSE mode

\* self.current_mode after select_mode(mode) took the path, old before it
select_mode(class, old, mode, path) ==
    CASE class \in {"gemini", "chatgpt"} ->
           IF mode = "image"
           THEN CASE path = "activated" -> "image"
                  [] path = "not_found" -> "image"
                  [] path = "error"     -> "image"
           ELSE mode
      [] class = "claude" -> mode

\* a provider of a session: self.current_mode is None after __init__, or
\* what the select_mode call of an earlier task left
InitProvider ==
    /\ provider_class \in KnownProviders
    /\ current_mode \in Modes \cup {"none"}
    /\ timeout \in 0..MaxTimeout
    /\ page \in Pages
    /\ elapsed = 0 /\ error = NoError
    /\ polls = 0 /\ probeFailed = FALSE /\ polledFinished = FALSE
    /\ selected = NoCall
    /\ config_file = NoFile /\ config = NoConfig
    /\ entry = "provider" /\ pc = "select"
    /\ OrchIdle

provframe == <<store, organized, entry, docvars, cfgvars, tasks, skip_existing,
               retry_attempts, i, attempt, success, successful, failed,
               skipped, providers, handles, provider, downloaded_file, ci,
               pending, histvars, provider_class, current_mode, timeout>>

\* provider.select_mode(artifact.artifact_type)
ProvSelectMode ==
    /\ pc = "select"
    /\ \E mode \in Modes :
       \E path \in SelectPaths(provider_class, mode) :
        /\ current_mode' = select_mode(provider_class, current_mode, mode, path)
        /\ selected' = [mode |-> mode, before |-> current_mode, path |-> path]
        /\ IF SelectModeRaises(provider_class, mode)
           THEN pc' = "raised" /\ error' = "ValueError"
           ELSE pc' = "prov" /\ UNCHANGED error
    /\ UNCHANGED <<fmvars, entry, docvars, cfgvars, tasks, skip_existing,
                   retry_attempts, i, attempt, success, successful, failed,
                   skipped, providers, handles, provider, downloaded_file, ci,
                   pending, histvars, provider_class, timeout, elapsed, page,
                   polls, probeFailed, polledFinished>>

\* wait_for_completion is entered: start_time = time.time()
WaitStart ==
    /\ pc = "prov"
    /\ elapsed' = 0
    /\ pc' = "wait_loop"
    /\ UNCHANGED <<provframe, staging, page, error, provhist>>

\* the remote service changes the page between two iterations; what the
\* earlier tasks left on it stays
PageChanges ==
    /\ pc = "wait_loop"
    /\ page' \in {pg \in Pages : pg.earlier = page.earlier} \ {page}
    /\ UNCHANGED <<provframe, staging, elapsed, error, provhist, pc>>

\* "while time.time() - start_time < timeout": one iteration
WaitPoll ==
    /\ pc = "wait_loop"
    /\ elapsed < timeout
    /\ \E fails \in BOOLEAN :
        LET r == Poll(provider_class, current_mode, page, fails)
        IN  /\ elapsed' = elapsed + r.sleep
            /\ pc' = IF r.raises THEN "raised"
                     ELSE IF r.returns THEN "wait_returned" ELSE "wait_loop"
            /\ error' = IF r.raises THEN "WebDriverException" ELSE error
            /\ probeFailed' = fails
            /\ polledFinished' =
                  (polledFinished \/ (~fails /\ Finished(current_mode, page)))
    /\ polls' = polls + 1
    /\ UNCHANGED <<provframe, staging, page, selected>>

\* the loop ends: "raise TimeoutError(...)"
WaitTimeout ==
    /\ pc = "wait_loop"
    /\ elapsed >= timeout
    /\ pc' = "raised"
    /\ error' = "TimeoutError"
    /\ UNCHANGED <<provframe, staging, page, elapsed, provhist>>

\* what download_artifact saves: in image mode the last generated image of
\* the page, which is an earlier task's when the prompt just sent produced
\* none; otherwise the text of the last answer
Retrieved(mode, pg) ==
    IF mode = "image" /\ ~pg.image THEN OldContent ELSE NewContent(1, 1)

\* the try block of download_artifact: it returns the path of a file it
\* left in download_dir, or something in it raises
DownloadBody ==
    /\ pc = "wait_returned"
    /\ \/ /\ staging' = Put(staging, DownloadName(current_mode, NameF),
                            Retrieved(current_mode, page))
          /\ pc' = "download_returned"
          /\ UNCHANGED error
       \/ /\ error' = "RetrievalError"
          /\ pc' = "download_except"
          /\ UNCHANGED staging
    /\ UNCHANGED <<provframe, page, elapsed, provhist>>

\* what the bare "raise" at the end of the handler raises: e is the
\* exception the handler caught, inner the one the screenshot raised
\* variant: the exception raised last
ReraisedLast(e, inner) == IF inner # NoError THEN inner ELSE e

Reraised(e, inner) == e

\* "except Exception as e": the screenshot is tried, its own exception is
\* dropped by "except: pass", then "raise"
DownloadExcept ==
    /\ pc = "download_except"
    /\ \E inner \in {NoError, "ScreenshotError"} :
        /\ staging' = IF inner = NoError
                      THEN Put(staging, ScreenshotFile, OldContent)
                      ELSE staging
        /\ error' = Reraised(error, inner)
    /\ pc' = "raised"
    /\ UNCHANGED <<provframe, page, elapsed, provhist>>

NextProvider ==
    \/ ProvSelectMode \/ WaitStart \/ PageChanges \/ WaitPoll \/ WaitTimeout
    \/ DownloadBody \/ DownloadExcept

SpecProvider == InitProvider /\ [][NextProvider]_vars

\* the thread of wait_for_completion goes on running
SpecProviderFair == SpecProvider /\ WF_vars(WaitPoll \/ WaitTimeout)

\* ========================================================================
\* Properties
\* ========================================================================
Last(q) == q[Len(q)]

Sum3(c) == c.succeeded + c.failed + c.skipped

\* ------------------------------------------------------------------------
\* C2 (SpecFM).  The organizer never overwrites: every file of the store
\* keeps its key and its content across every call, and every successful
\* organize_artifact / rename_and_move call adds exactly one key.
\* ------------------------------------------------------------------------
C2_NeverOverwrites ==
    [][ /\ \A f \in Files(store) : f \in Files(store') /\ store'[f] = store[f]
        /\ (organized' # organized /\ Last(organized').ok)
             => /\ Cardinality(Files(store')) = Cardinality(Files(store)) + 1
                /\ Last(organized').path \in Files(store') \ Files(store)
        /\ (organized' # organized /\ ~Last(organized').ok)
             => store' = store ]_vars

\* a call succeeded although the base key of its artifact was occupied
C2_Witness ==
    \E n \in DOMAIN organized :
        /\ organized[n].ok
        /\ FileName(organized[n].name, organized[n].ext) \in organized[n].before
        /\ Cardinality(Files(store)) = Cardinality(organized[n].before) + 1

\* ------------------------------------------------------------------------
\* C3 (SpecFM).  organize places the file at name.ext when that key is free
\* and otherwise at name_k.ext for the least k >= 1 with name_k.ext free;
\* with only f.png present, two calls for (f, png) give f_1.png, f_2.png.
\* ------------------------------------------------------------------------
FreeSuffixes(before, name, ext) ==
    {k \in 1..(Cardinality(before) + 1) : SuffixedName(name, k, ext) \notin before}

LeastFree(before, name, ext) ==
    CHOOSE k \in FreeSuffixes(before, name, ext) :
        \A m \in FreeSuffixes(before, name, ext) : k <= m

ExpectedPath(before, name, ext) ==
    IF FileName(name, ext) \notin before
    THEN FileName(name, ext)
    ELSE SuffixedName(name, LeastFree(before, name, ext), ext)

C3_SmallestFreeSuffix ==
    /\ \A n \in DOMAIN organized :
         organized[n].ok =>
           organized[n].path =
             ExpectedPath(organized[n].before, organized[n].name, organized[n].ext)
    /\ ( /\ Len(organized) >= 2
         /\ organized[1].before = {FileName(NameF, ExtPng)}
         /\ \A n \in 1..2 : organized[n].ok /\ organized[n].name = NameF )
       => /\ organized[1].path = <<"f", "_", "1", ".", "png">>
          /\ organized[2].path = <<"f", "_", "2", ".", "png">>

\* f.png and f_1.png were present and a call for (f, png) was given f_2.png
C3_Witness ==
    \E n \in DOMAIN organized :
        /\ organized[n].ok
        /\ organized[n].name = NameF
        /\ {FileName(NameF, ExtPng), SuffixedName(NameF, 1, ExtPng)}
              \subseteq organized[n].before
        /\ organized[n].path = SuffixedName(NameF, 2, ExtPng)

\* ------------------------------------------------------------------------
\* C1 (Spec).  With skip_existing, a task whose base key output_name.ext
\* is in the store when the task is reached is counted as Skipped; no
\* provider is looked up or created for it, no step of process_artifact is
\* entered for it, and the download directory is left as it is.
\* ------------------------------------------------------------------------
BaseKeyPresent ==
    /\ pc = "loop" /\ i <= Total
    /\ skip_existing
    /\ FileName(Task.output_name, Task.extension) \in Files(store)

C1_SkipExistingNeverInvokesProvider ==
    /\ [][ BaseKeyPresent =>
             /\ skipped' = skipped + 1
             /\ counted'[i] = [Zero3 EXCEPT !.skipped = 1]
             /\ i' = i + 1 /\ pc' = "loop"
             /\ trace' = <<>> /\ nAttempts'[i] = 0
             /\ UNCHANGED <<providers, handles, provider, staging, store>> ]_vars
    /\ [](\A j \in DOMAIN counted :
             counted[j].skipped > 0 => nAttempts[j] = 0 /\ counted[j] = [Zero3 EXCEPT !.skipped = 1])

\* a task was skipped in a run that had already opened a provider session
C1_Witness ==
    \E j \in DOMAIN counted :
        /\ j > 1 /\ j < i
        /\ counted[j].skipped = 1
        /\ providers # <<>>

\* ------------------------------------------------------------------------
\* C4 (Spec).  Retry accounting: a task one of whose attempts returned True
\* is counted once as Succeeded and never as Failed, however many attempts
\* failed before; a task is counted as Failed at most once, and only when
\* none of its attempts returned True.
\* ------------------------------------------------------------------------
C4_RetryAccounting ==
    \A j \in DOMAIN counted :
        /\ counted[j].succeeded <= 1 /\ counted[j].failed <= 1
        /\ firstOk[j] > 0 => counted[j].failed = 0
        /\ (firstOk[j] > 0 /\ ~(j = i /\ pc = "attempt_result"))
              => counted[j].succeeded = 1
        /\ counted[j].succeeded = 1 => firstOk[j] > 0
        /\ counted[j].failed = 1 => firstOk[j] = 0
        /\ (j < i /\ counted[j].skipped = 0 /\ firstOk[j] = 0)
              => counted[j].failed = 1

\* a resolved task that succeeded on a retry
C4_Witness ==
    \E j \in DOMAIN counted :
        /\ j < i
        /\ firstOk[j] >= 2
        /\ counted[j] = [Zero3 EXCEPT !.succeeded = 1]

\* ------------------------------------------------------------------------
\* C5 (Spec).  With retry_attempts = N >= 0, process_artifact is invoked at
\* most N times for a task, never again after an attempt returned True,
\* and again after a failed attempt as long as fewer than N were made; with
\* N = 0 the task is counted Failed without any attempt.
\* ------------------------------------------------------------------------
C5_AttemptsBounded ==
    /\ [](\A j \in DOMAIN counted :
            /\ nAttempts[j] <= retry_attempts
            /\ firstOk[j] > 0 => nAttempts[j] = firstOk[j]
            /\ counted[j].failed = 1 => nAttempts[j] = retry_attempts
            /\ (retry_attempts = 0 /\ j < i /\ counted[j].skipped = 0)
                  => counted[j].failed = 1 /\ nAttempts[j] = 0)
    /\ [][ (pc = "attempt_result" /\ ~success /\ nAttempts[i] < retry_attempts)
             => pc' = "backoff" ]_vars
    /\ [][ (pc = "attempt_loop" /\ nAttempts[i] < retry_attempts)
             => pc' = "get_provider" /\ nAttempts'[i] = nAttempts[i] + 1 ]_vars
    /\ [][ (pc = "attempt_result" /\ success) => pc' = "after_attempts" ]_vars

\* a task was retried and counted Failed after its last permitted attempt
C5_Witness ==
    \E j \in DOMAIN counted :
        /\ retry_attempts >= 2
        /\ nAttempts[j] = retry_attempts
        /\ counted[j].failed = 1

\* ------------------------------------------------------------------------
\* C6 (Spec).  The backoff pause is taken exactly once after each failed
\* attempt that is followed by another attempt of the task, and neither
\* after an attempt that returned True nor after the retry_attempts-th one.
\* ------------------------------------------------------------------------
C6_BackoffBetweenAttemptsOnly ==
    \A j \in DOMAIN backoffs :
        /\ \A k \in DOMAIN backoffs[j] :
              /\ backoffs[j][k] = k
              /\ backoffs[j][k] < retry_attempts
              /\ backoffs[j][k] # firstOk[j]
        /\ \A a \in 2..nAttempts[j] :
              Cardinality({k \in DOMAIN backoffs[j] : backoffs[j][k] = a - 1}) = 1
        /\ Len(backoffs[j]) <= nAttempts[j]
        /\ (Len(backoffs[j]) = nAttempts[j] /\ nAttempts[j] > 0)
              => j = i /\ pc = "attempt_loop"

\* a task failed its last permitted attempt after pauses between the others
C6_Witness ==
    \E j \in DOMAIN backoffs :
        /\ retry_attempts >= 2
        /\ counted[j].failed = 1
        /\ Len(backoffs[j]) = retry_attempts - 1

\* ------------------------------------------------------------------------
\* C7 (Spec).  The three counters always sum to the number of tasks
\* resolved so far, each resolved task is in exactly one of them, and the
\* summary reports successful + failed + skipped = total = len(artifacts).
\* ------------------------------------------------------------------------
CountedIn(field) == {j \in DOMAIN counted : counted[j][field] = 1}

C7_CountersSumToResolved ==
    /\ \A j \in DOMAIN counted : Sum3(counted[j]) <= 1
    /\ successful = Cardinality(CountedIn("succeeded"))
    /\ failed = Cardinality(CountedIn("failed"))
    /\ skipped = Cardinality(CountedIn("skipped"))
    /\ pc = "loop" =>
         /\ successful + failed + skipped = i - 1
         /\ \A j \in DOMAIN counted : Sum3(counted[j]) = (IF j < i THEN 1 ELSE 0)
    /\ summary # NoSummary =>
         /\ summary.total = Len(tasks)
         /\ summary.successful + summary.failed + summary.skipped = summary.total
         /\ summary.successful = successful /\ summary.failed = failed
         /\ summary.skipped = skipped
         /\ \A j \in DOMAIN counted : Sum3(counted[j]) = 1

\* a summary over two tasks: the first one failed after a retry, the
\* second one was skipped because the store held its file from the start
C7_Witness ==
    /\ summary # NoSummary
    /\ summary.total = 2
    /\ summary.failed = 1
    /\ summary.skipped = 1
    /\ nAttempts[1] = 2

\* ------------------------------------------------------------------------
\* C8.  As claimed: a failure at any step of process_artifact, the staging
\* clear included, makes the attempt return False.
\* ------------------------------------------------------------------------
AllSteps == <<"get_provider", "clear_download_directory", "select_mode",
              "send_prompt", "wait_for_completion", "download_artifact",
              "organize_artifact">>

StepPcs == {"get_provider", "clear", "select_mode", "send_prompt",
            "wait_for_completion", "download_artifact", "organize_artifact"}

C9_EveryHandleClosedOnce ==
    pc \in {"done", "raised"} =>
        \A k \in DOMAIN providers : handles[providers[k].h].closes = 1

\* ------------------------------------------------------------------------
\* C10 (Spec).  In cleanup, close() is invoked on every cached provider
\* even when close() of another one raised, and cleanup itself does not
\* raise; also in runs in which a wait_for_completion had failed.
\* ------------------------------------------------------------------------
C10_CleanupClosesEveryHandle ==
    /\ [](ci > 0 =>
            \A k \in DOMAIN providers :
                handles[providers[k].h].closes = (IF k < ci THEN 1 ELSE 0))
    /\ []((ci > 0 /\ pc \in {"done", "raised"}) =>
            \A k \in DOMAIN providers : handles[providers[k].h].closes = 1)
    /\ [][ (pc = "cleanup" /\ pc' # "cleanup") =>
             /\ ci > Len(providers)
             /\ pc' = (IF pending THEN "raised" ELSE "done") ]_vars

\* two cached providers, close() of the first one raised, the second one
\* was closed all the same, after a run in which a wait had timed out
C10_Witness ==
    /\ pc = "done"
    /\ Len(providers) = 2
    /\ waitFailed
    /\ providers[1].h \in closeRaised
    /\ handles[providers[2].h].closes = 1

\* ------------------------------------------------------------------------
\* C11.  For each backend at most one provider whose driver was started
\* and on which close() was never invoked exists, also after a login that
\* failed and a retry of the task.
\* ------------------------------------------------------------------------
OpenSessions(b) ==
    {h \in DOMAIN handles : handles[h].backend = b /\ handles[h].closes = 0}

C11_OneOpenSessionPerBackend ==
    \A b \in KnownProviders : Cardinality(OpenSessions(b)) <= 1

\* ------------------------------------------------------------------------
\* C12 (Spec).  Within one attempt the steps are entered in the order
\* get_provider, clear_download_directory, select_mode, send_prompt,
\* wait_for_completion, download_artifact, organize_artifact, each one
\* only from the normal return of the one before it and none twice; every
\* attempt, a retry included, starts at get_provider.
\* ------------------------------------------------------------------------
StepPcSeq == <<"get_provider", "clear", "select_mode", "send_prompt",
               "wait_for_completion", "download_artifact",
               "organize_artifact">>

StepIndex(p) == CHOOSE k \in DOMAIN StepPcSeq : StepPcSeq[k] = p

Unsupported(t) == t.provider = "claude" /\ t.artifact_type = "image"

C13_UnsupportedKindNeverSubmitted ==
    /\ []((pc \in StepPcs /\ Unsupported(Task)) =>
             /\ StepIndex(pc) <= StepIndex("select_mode")
             /\ \A k \in DOMAIN trace : trace[k] # "send_prompt")
    /\ [](\A j \in DOMAIN counted :
             Unsupported(tasks[j]) =>
               /\ firstOk[j] = 0 /\ counted[j].succeeded = 0
               /\ (j < i /\ counted[j].skipped = 0) => counted[j].failed = 1)
    /\ [][ (pc = "select_mode" /\ Unsupported(Task)) =>
             (pc' = "attempt_result" /\ ~success') ]_vars

\* a claude image task failed two attempts in which select_mode was invoked
C13_Witness ==
    \E j \in DOMAIN counted, k \in DOMAIN providers :
        /\ Unsupported(tasks[j])
        /\ nAttempts[j] = 2 /\ counted[j].failed = 1
        /\ providers[k].name = "claude"
        /\ handles[providers[k].h].current_mode = "image"

\* ------------------------------------------------------------------------
\* C14.  When send_prompt is about to be invoked, the download directory
\* holds no file: between the start of the attempt and send_prompt only
\* clear_download_directory touches it, so a file found there was present
\* before the attempt began.
\* ------------------------------------------------------------------------
C14_StagingCleanAtSendPrompt ==
    pc = "send_prompt" => Files(staging) = {}

\* ------------------------------------------------------------------------
\* C15 (Spec).  time.sleep(delay) is taken exactly once after each task
\* that went through the retry loop (counted Succeeded or Failed) and is
\* not the last of the list, before the next task is looked at; never
\* after the last task and never for a skipped task.
\* ------------------------------------------------------------------------
C15_DelayBetweenTasksOnly ==
    /\ \A k \in DOMAIN delays :
          /\ delays[k] < Total
          /\ delays[k] < i
          /\ counted[delays[k]].skipped = 0
          /\ Sum3(counted[delays[k]]) = 1
          /\ \A m \in DOMAIN delays : m < k => delays[m] < delays[k]
    /\ \A j \in DOMAIN counted :
          (j < i /\ j < Total /\ counted[j].skipped = 0)
             => Cardinality({k \in DOMAIN delays : delays[k] = j}) = 1

\* the first of two tasks failed, the pause followed it, none followed
\* the second task, and the run ended
C15_Witness ==
    /\ pc = "done"
    /\ Len(tasks) = 2
    /\ counted[1].failed = 1
    /\ delays = <<1>>

\* ------------------------------------------------------------------------
\* C16.  Every run that has ended, by a return or by an exception, has
\* printed the summary with the counters as they stood.
\* ------------------------------------------------------------------------
C16_SummaryAlwaysEmitted ==
    pc \in {"done", "raised"} =>
        /\ summary # NoSummary
        /\ summary.successful = successful
        /\ summary.failed = failed
        /\ summary.skipped = skipped

\* ------------------------------------------------------------------------
\* C17 (Spec).  In a re-run with skip_existing over the task list of a run
\* that counted every task Succeeded or Skipped, every task is skipped: no
\* step of process_artifact is entered, no provider is created, the store
\* and the download directory stay as they were, and the summary counts
\* every task as Skipped.
\* ------------------------------------------------------------------------
C17_RerunSkipsEverything ==
    /\ [](run_no = 2 =>
            /\ pc \in {"init_providers", "loop", "cleanup", "done"}
            /\ providers = <<>> /\ handles = <<>> /\ trace = <<>>
            /\ successful = 0 /\ failed = 0
            /\ \A j \in DOMAIN nAttempts : nAttempts[j] = 0)
    /\ [][ (run_no = 2) => (store' = store /\ staging' = staging) ]_vars
    /\ []((run_no = 2 /\ pc = "done") =>
            /\ summary # NoSummary
            /\ summary.skipped = Len(tasks) /\ summary.total = Len(tasks)
            /\ summary.successful = 0 /\ summary.failed = 0)

\* the first run stored both files under suffixed names, the re-run
\* skipped both tasks
C17_Witness ==
    /\ run_no = 2 /\ pc = "done"
    /\ summary # NoSummary /\ summary.skipped = 2
    /\ SuffixedName(NameF, 2, ExtPng) \in Files(store)
    /\ store[SuffixedName(NameF, 2, ExtPng)] # OldContent

\* ------------------------------------------------------------------------
\* C18.  End to end: the document is one structured block, the store was
\* empty and every attempt made returned True at the first try; then the
\* summary is succeeded 1, failed 0, skipped 0, total 1 and the store holds
\* exactly output_name.extension.
\* ------------------------------------------------------------------------
C18_OneBlockOneFile ==
    ( /\ pc = "done" /\ run_no = 1
      /\ content = OneBlockDocument
      /\ summary # NoSummary
      /\ \A f \in Files(store) : store[f] # OldContent
      /\ \A j \in DOMAIN nAttempts : nAttempts[j] = 1 /\ firstOk[j] = 1 )
    => /\ summary = [total |-> 1, successful |-> 1, failed |-> 0, skipped |-> 0]
       /\ Files(store) = {FileName(NameF, ExtPng)}

\* ------------------------------------------------------------------------
\* C19.  All parse() calls on one unchanged document, on the same
\* MarkdownParser or on a new one, return equal lists.
\* ------------------------------------------------------------------------
C19_ParseIdempotent ==
    \A m, n \in DOMAIN returned : returned[m] = returned[n]

\* ------------------------------------------------------------------------
\* C20.  No task of the simple scan starts at the heading of a structured
\* match, and parse() on a new MarkdownParser returns one task for every
\* structured match plus the simple tasks of the other headings.
\* ------------------------------------------------------------------------
StructuredStarts(c) ==
    {StructuredScan(c, 1)[n].start : n \in DOMAIN StructuredScan(c, 1)}

SimpleStarts(c) == {SimpleKept(c)[n].start : n \in DOMAIN SimpleKept(c)}

C20_StructuredNotRepeated ==
    Len(returned) >= 1 =>
        /\ StructuredStarts(content) \cap SimpleStarts(content) = {}
        /\ Len(returned[1]) =
              Cardinality(StructuredStarts(content) \cup SimpleStarts(content))

\* ------------------------------------------------------------------------
\* C21.  Every list parse() returns is the structured matches in document
\* order followed by the minimal matches that repeat no structured match and
\* no earlier minimal task, in document order; no minimal task stands before
\* a structured one.
\* ------------------------------------------------------------------------
RECURSIVE SelectMatches(_, _)
SelectMatches(ms, starts) ==
    IF ms = <<>> THEN <<>>
    ELSE IF Head(ms).start \in starts
         THEN <<Head(ms)>> \o SelectMatches(Tail(ms), starts)
         ELSE SelectMatches(Tail(ms), starts)

NonDuplicateMinimal(c) ==
    LET ms == SelectMatches(SimpleKept(c), SimpleStarts(c) \ StructuredStarts(c))
    IN  [n \in DOMAIN ms |-> SimpleArtifact(c, ms[n])]

C21_StructuredThenMinimal ==
    \A n \in DOMAIN returned :
        returned[n] = parse_structured_format(content) \o NonDuplicateMinimal(content)

\* ------------------------------------------------------------------------
\* C22.  The output_name derived for a minimal task is lower-case, is made
\* of the characters a-z, 0-9 and "_" only, and starts or ends with "_"
\* only where white space of the heading stood; "Cover Art!" gives
\* "cover_art".
\* ------------------------------------------------------------------------
\* the tokens that are made of the characters a-z, 0-9 and "_" only
PlainTokens ==
    {"a", "b", "f", "1", "_", "type", "image", "provider", "gemini", "output",
     "name", "extension", "png", "cover", "art", "caf", "note", "prompt"}

\* the task of the n-th call that the j-th kept match of the simple scan gave
MinimalTask(n, j) == returned[n][Len(parse_structured_format(content)) + j]

C22_OutputNameSanitised ==
    Len(returned) >= 1 =>
        \A j \in DOMAIN SimpleKept(content) :
            LET t    == MinimalTask(1, j)
                out  == t.output_name
                kept == DropPunctuation(t.name)
            IN  /\ \A k \in DOMAIN out : out[k] \in PlainTokens \ UpperWords
                /\ (out # <<>> /\ Head(out) = "_") => IsSpace(Head(kept))
                /\ (out # <<>> /\ Last(out) = "_") => IsSpace(Last(kept))
                /\ t.name = <<"Cover", " ", "Art", "!">> =>
                       out = <<"cover", "_", "art">>

\* ------------------------------------------------------------------------
\* C23.  Every task of every list parse() returns has a non-empty name,
\* artifact_type, provider, output_name, extension and prompt, and its
\* artifact_type and provider are lower-case.
\* ------------------------------------------------------------------------
C23_FieldsNonEmpty ==
    \A n \in DOMAIN returned : \A j \in DOMAIN returned[n] :
        LET t == returned[n][j]
        IN  /\ t.name # <<>> /\ t.artifact_type # <<>> /\ t.provider # <<>>
            /\ t.output_name # <<>> /\ t.extension # <<>> /\ t.prompt # <<>>
            /\ \A k \in DOMAIN t.artifact_type : t.artifact_type[k] \notin UpperWords
            /\ \A k \in DOMAIN t.provider : t.provider[k] \notin UpperWords

\* ------------------------------------------------------------------------
\* C24.  The tasks parse() returns for a document are the tasks its
\* well-formed blocks give when each is parsed alone: a malformed block
\* gives no task and changes the task of no other block.
\* ------------------------------------------------------------------------
Headings(c) == {s \in DOMAIN c : c[s].kind = "heading"}

\* the block that starts with the heading of line s
BlockAt(c, s) ==
    SubSeq(c, s, Min({e \in s..Len(c) : e = Len(c) \/ c[e + 1].kind = "heading"}))

Shape(b) == [k \in DOMAIN b |-> b[k].kind]

WellFormedShapes ==
    {Shape(StructuredBlock(<<"A">>, NameF)), Shape(MinimalBlock(<<"A">>)),
     Shape(EmptyPromptBlock(<<"A">>))}

WellFormedBlocks(c) ==
    {BlockAt(c, s) : s \in {h \in Headings(c) : Shape(BlockAt(c, h)) \in WellFormedShapes}}

TasksOf(r) == {r[j] : j \in DOMAIN r}

C24_BlocksIndependent ==
    Len(returned) >= 1 =>
        TasksOf(returned[1]) =
            UNION {TasksOf(parse(<<>>, b)) : b \in WellFormedBlocks(content)}

\* ------------------------------------------------------------------------
\* C25.  When the task document cannot be read, parse() raises and gives
\* no task list; under run() no provider is created, no step of a task is
\* taken, the store and the download directory stay as they were, and
\* cleanup has run when the error leaves run().
\* ------------------------------------------------------------------------
\* run() is ending, or has ended, with the exception of parse()
ParseFailed == entry = "run" /\ pending /\ tasks = <<>> /\ returned = <<>>

C25_UnreadableDocumentAborts ==
    /\ [][ (pc = "parse" /\ (pending' \/ pc' = "raised")) =>
             /\ returned' = <<>> /\ self_artifacts' = <<>> /\ tasks' = <<>>
             /\ entry = "run" => pc' = "cleanup" ]_vars
    /\ [](ParseFailed =>
             /\ handles = <<>> /\ providers = <<>> /\ trace = <<>>
             /\ organized = <<>> /\ summary = NoSummary)
    /\ [][ ParseFailed' => UNCHANGED <<store, staging>> ]_vars
    /\ []((ParseFailed /\ pc = "raised") => ci > 0)

\* run() has re-raised the error of parse() after cleanup, with files in
\* both directories
C25_Witness ==
    /\ ParseFailed /\ pc = "raised" /\ ci > 0
    /\ Files(store) # {} /\ Files(staging) # {}

\* ------------------------------------------------------------------------
\* C26.  load_config always returns a configuration: for a missing file
\* and for a file that cannot be read or parsed it returns exactly the
\* defaults (timeout 300, retry_attempts 3, delay_between_artifacts 5,
\* headless False), with no value of the file among them.
\* ------------------------------------------------------------------------
C26_DefaultsOnMissingOrMalformed ==
    [][ (pc = "config" /\ pc' = "config_loaded") =>
          /\ config' # NoConfig
          /\ config_file \notin ConfigObjects =>
               /\ config' = get_default_config
               /\ config'.timeout = 300 /\ config'.retry_attempts = 3
               /\ config'.delay_between_artifacts = 5
               /\ config'.headless = FALSE ]_vars

\* load_config has returned the defaults for a file that is not JSON
C26_Witness ==
    /\ pc = "config_loaded"
    /\ config_file = Malformed
    /\ config = get_default_config

\* ------------------------------------------------------------------------
\* C27.  wait_for_completion of every provider is a loop of at most
\* timeout/2 iterations (rounded up) that ends, and ends in one of two
\* ways: it returns, or it raises TimeoutError when the elapsed time has
\* reached timeout; an iteration in which a probe raised leads back to the
\* loop test.
\* ------------------------------------------------------------------------
C27_WaitPollsUntilDoneOrTimeout ==
    /\ [][ (pc = "wait_loop") =>
             /\ pc' \in {"wait_loop", "wait_returned", "raised"}
             /\ pc' = "raised" =>
                  (error' = "TimeoutError" /\ elapsed >= timeout) ]_vars
    /\ [][ (pc = "wait_loop" /\ polls' = polls + 1 /\ probeFailed') =>
             pc' = "wait_loop" ]_vars
    /\ [](pc = "wait_loop" => (2 * polls <= elapsed /\ 2 * polls <= timeout + 1))
    /\ ((pc = "wait_loop") ~> (pc \in {"wait_returned", "raised"}))

\* a probe raised in the first iteration and the loop is about to run a
\* second one
C27_Witness ==
    /\ pc = "wait_loop" /\ polls = 1 /\ probeFailed
    /\ elapsed < timeout

\* ------------------------------------------------------------------------
\* C28.  For every provider and every mode select_mode accepted: when an
\* iteration of the loop, without a failing probe, looked at a page whose
\* generation had finished, wait_for_completion does not end with
\* TimeoutError.
\* ------------------------------------------------------------------------
C28_FinishedGenerationReturns ==
    (pc = "raised" /\ error = "TimeoutError") => ~polledFinished

\* ------------------------------------------------------------------------
\* C29.  When the try block of download_artifact raised, the call ends by
\* raising that same exception, whether error_screenshot.png was saved or
\* saving it raised too; it never returns a path.
\* ------------------------------------------------------------------------
C29_OriginalErrorReraised ==
    /\ [][ (pc = "download_except") =>
             (pc' = "raised" /\ error' = "RetrievalError") ]_vars
    /\ [][ (pc = "wait_returned" /\ error' # NoError) =>
             pc' = "download_except" ]_vars
    /\ [](pc = "download_returned" => error = NoError)

\* download_artifact has raised the error of its try block after the
\* screenshot failed as well
C29_Witness ==
    /\ pc = "raised" /\ error = "RetrievalError"
    /\ ScreenshotFile \notin Files(staging)

\* ------------------------------------------------------------------------
\* C30.  The store changes only in the organize step of an attempt whose
\* download_artifact had returned, and that step ends the attempt with
\* True: no step of a failed attempt and no skip changes the store; when
\* the batch is through, the files added to the store are as many as the
\* tasks counted as succeeded.
\* ------------------------------------------------------------------------
AddedFiles == {f \in Files(store) : store[f] # OldContent}

C30_StoreChangesOnlyInOrganize ==
    /\ [][ (store' # store) =>
             /\ pc = "organize_artifact" /\ trace # <<>>
             /\ Last(trace) = "download_artifact"
             /\ downloaded_file \in Files(staging)
             /\ pc' = "attempt_result" /\ success'
             /\ Cardinality(Files(store')) = Cardinality(Files(store)) + 1
             /\ \A f \in Files(store) : store'[f] = store[f] ]_vars
    /\ [][ (skipped' # skipped \/ failed' # failed) => store' = store ]_vars
    /\ []((run_no = 1 /\ summary # NoSummary) =>
             Cardinality(AddedFiles) = summary.successful)

\* a batch of two tasks: one failed at its only attempt, one succeeded, and
\* the store, which held a file before, has one file more
C30_Witness ==
    /\ run_no = 1 /\ summary # NoSummary
    /\ summary.successful = 1 /\ summary.failed = 1
    /\ Cardinality(AddedFiles) = 1
    /\ Cardinality(Files(store)) = 2

\* ------------------------------------------------------------------------
\* C31: organize_artifact called with a source path that does not exist
\* fails and leaves the artifacts store and the download directory as they
\* were; in process_artifact the failure is caught, so the attempt returns
\* False and nothing is counted as a success for it.
\* ------------------------------------------------------------------------
MissingSourceFails(source_path) ==
    \A t \in TaskPool :
        LET r == organize_artifact(store, staging, source_path,
                                   t.output_name, t.extension)
        IN  ~r.ok /\ r.path = NoPath /\ r.store = store /\ r.staging = staging

C31_MissingSourceFailsAttempt ==
    /\ [](MissingSourceFails(MissingFile))
    /\ []((pc = "organize_artifact" /\ downloaded_file \notin Files(staging))
            => MissingSourceFails(downloaded_file))
    /\ [][(pc = "organize_artifact" /\ downloaded_file \notin Files(staging))
            => /\ store' = store /\ staging' = staging
               /\ pc' = "attempt_result" /\ success' = FALSE
               /\ firstOk' = firstOk]_vars

\* an attempt has just failed in organize_artifact on a missing source
C31_Witness ==
    /\ pc = "attempt_result" /\ ~success
    /\ trace # <<>> /\ Last(trace) = "organize_artifact"
    /\ downloaded_file # NoPath /\ downloaded_file \notin Files(staging)

\* ------------------------------------------------------------------------
\* C32: in the list the first parse() call of a MarkdownParser returns, no
\* two tasks have the same name.
\* ------------------------------------------------------------------------
C32_NamesDistinctInOneParse ==
    Len(returned) >= 1 =>
        \A m, n \in DOMAIN returned[1] :
            m # n => returned[1][m].name # returned[1][n].name

\* ------------------------------------------------------------------------
\* C33: session reuse.  self.providers holds at most one handle per backend
\* and an entry never changes during a run; get_provider for a cached
\* backend returns the cached handle and starts no browser; a browser is
\* started only for a backend that is not cached; every step after
\* get_provider works on the handle cached for the task's backend.
\* ------------------------------------------------------------------------
C33_SessionReuse ==
    /\ [](\A m, n \in DOMAIN providers :
            m # n => providers[m].name # providers[n].name)
    /\ [](pc \in StepPcs \ {"get_provider"}
            => /\ Cached(Task.provider)
               /\ provider = providers[Lookup(providers, Task.provider, 1)].h)
    /\ [][run_no' = run_no
            => \A k \in DOMAIN providers :
                  k \in DOMAIN providers' /\ providers'[k] = providers[k]]_vars
    /\ [][(pc = "get_provider" /\ Cached(Task.provider))
            => /\ provider' = providers[Lookup(providers, Task.provider, 1)].h
               /\ handles' = handles /\ providers' = providers
               /\ pc' = "clear"]_vars
    /\ [][Len(handles') > Len(handles)
            => /\ pc = "get_provider" /\ ~Cached(Task.provider)
               /\ handles'[Len(handles')].backend = Task.provider]_vars

\* the second task of the list received the handle the first task created
C33_Witness ==
    /\ pc = "clear" /\ i = 2
    /\ tasks[1].provider = tasks[2].provider
    /\ firstOk[1] > 0
    /\ Len(handles) = 1 /\ Len(providers) = 1
    /\ provider = providers[1].h

\* ------------------------------------------------------------------------
\* C34: wait_for_completion for an image task returns normally only when an
\* image generated for the prompt just sent is on the page, and the file
\* download_artifact then returns holds that image.
\* ------------------------------------------------------------------------
C34_WaitReturnsOnCurrentImage ==
    /\ (pc = "wait_returned" /\ current_mode = "image") => page.image
    /\ (pc = "download_returned" /\ current_mode = "image")
          => staging[BrowserFile] = NewContent(1, 1)

\* ------------------------------------------------------------------------
\* C35: in a run with skip_existing, every file the run adds to the store
\* is added by organize_artifact under the base key
\* output_name.extension of the current task, never under a suffixed name;
\* nothing else of the store changes.
\* ------------------------------------------------------------------------
C35_NoSuffixWithSkipExisting ==
    /\ []((skip_existing /\ pc \in StepPcs)
            => FileName(Task.output_name, Task.extension) \notin Files(store))
    /\ [][(skip_existing /\ store' # store)
            => /\ pc = "organize_artifact"
               /\ FileName(Task.output_name, Task.extension) \notin Files(store)
               /\ store' = Put(store,
                               FileName(Task.output_name, Task.extension),
                               staging[downloaded_file])]_vars

\* two tasks with the same output name and extension: the first was stored
\* under the base key, the second was skipped
C35_Witness ==
    /\ skip_existing /\ run_no = 1
    /\ Len(tasks) = 2 /\ i = 3
    /\ tasks[1].output_name = tasks[2].output_name
    /\ tasks[1].extension = tasks[2].extension
    /\ successful = 1 /\ skipped = 1
    /\ FileName(tasks[1].output_name, tasks[1].extension) \in Files(store)

\* ------------------------------------------------------------------------
\* C36: self.providers gets a new entry only in the get_provider call whose
\* init_driver and login both returned, and that call goes on to
\* clear_download_directory; a get_provider call that raises leaves
\* self.providers and the download directory as they were and ends the
\* attempt with False after no other step.
\* ------------------------------------------------------------------------
C36_CachedOnlyAfterLogin ==
    /\ [](\A k \in DOMAIN providers :
            /\ providers[k].h \in DOMAIN handles
            /\ handles[providers[k].h].backend = providers[k].name)
    /\ []((pc = "attempt_result" /\ trace = <<"get_provider">>) => ~success)
    /\ [][(run_no' = run_no /\ providers' # providers)
            => /\ pc = "get_provider" /\ pc' = "clear"
               /\ handles' = Append(handles, NewHandle(Task.provider))
               /\ providers' = Append(providers,
                      [name |-> Task.provider, h |-> Len(handles')])
               /\ provider' = Len(handles')]_vars
    /\ [][(pc = "get_provider" /\ pc' # "clear")
            => /\ providers' = providers /\ staging' = staging
               /\ store' = store
               /\ pc' = "attempt_result" /\ success' = FALSE
               /\ trace' = <<"get_provider">>]_vars

\* login raised after the browser was started: a session exists, nothing is
\* cached, the attempt has failed
C36_Witness ==
    /\ pc = "attempt_result" /\ ~success
    /\ trace = <<"get_provider">>
    /\ Len(handles) = 1 /\ providers = <<>>

\* ------------------------------------------------------------------------
\* C37: over run() and cleanup() calls on one orchestrator, select_mode,
\* send_prompt, wait_for_completion and download_artifact are invoked only
\* on a handle on which close() was never invoked, and close() is invoked
\* at most once on a handle.
\* ------------------------------------------------------------------------
CapabilityPcs == {"select_mode", "send_prompt", "wait_for_completion",
                  "download_artifact"}

C37_NoUseAfterClose ==
    /\ [](\A h \in DOMAIN handles : handles[h].closes <= 1)
    /\ [][(pc \in CapabilityPcs /\ trace' # trace)
            => handles[provider].closes = 0]_vars

\* ------------------------------------------------------------------------
\* C38: a task whose provider is none of gemini, chatgpt, claude fails in
\* get_provider in every attempt: no browser is started and nothing is
\* cached for it, the download directory is not cleared and no provider
\* method is invoked; unless it was skipped it is counted Failed after
\* retry_attempts attempts, and the loop goes on with the next task.
\* ------------------------------------------------------------------------
NamedBackends == {"gemini", "chatgpt", "claude"}

UnknownBackend(t) == t.provider \notin NamedBackends

C38_UnknownBackendFails ==
    /\ [](\A h \in DOMAIN handles : handles[h].backend \in NamedBackends)
    /\ [](\A k \in DOMAIN providers : providers[k].name \in NamedBackends)
    /\ [](pc \in StepPcs \ {"get_provider"} => ~UnknownBackend(Task))
    /\ [](\A j \in DOMAIN counted :
            UnknownBackend(tasks[j]) =>
               /\ counted[j].succeeded = 0 /\ firstOk[j] = 0
               /\ nAttempts[j] <= retry_attempts
               /\ (j < i /\ counted[j].skipped = 0)
                     => (counted[j].failed = 1 /\ nAttempts[j] = retry_attempts))
    /\ [](summary # NoSummary => \A j \in DOMAIN counted : Sum3(counted[j]) = 1)
    /\ [][(pc = "get_provider" /\ UnknownBackend(Task))
            => /\ pc' = "attempt_result" /\ success' = FALSE
               /\ UNCHANGED <<store, staging, handles, providers>>]_vars
    /\ [][(pc = "after_attempts" /\ UnknownBackend(Task))
            => /\ failed' = failed + 1
               /\ \/ pc' = "delay" /\ i < Total
                  \/ pc' = "loop" /\ i' = i + 1]_vars

\* the first task names an unknown provider and was counted Failed after
\* two attempts; the second task was then processed and succeeded
C38_Witness ==
    /\ summary # NoSummary /\ run_no = 1
    /\ Len(tasks) = 2 /\ retry_attempts = 2
    /\ UnknownBackend(tasks[1])
    /\ counted[1] = [Zero3 EXCEPT !.failed = 1] /\ nAttempts[1] = 2
    /\ counted[2] = [Zero3 EXCEPT !.succeeded = 1]
    /\ Len(handles) = 1

\* ------------------------------------------------------------------------
\* C39: when select_mode(mode) has returned normally, on every provider
\* class and on every path through it, self.current_mode equals mode,
\* whatever it was before; the file download_artifact then returns is the
\* one of the branch for that mode.
\* ------------------------------------------------------------------------
AfterSelect == {"prov", "wait_loop", "wait_returned", "download_returned",
                "download_except"}

C39_CurrentModeIsRequestedKind ==
    /\ pc \in AfterSelect =>
          (selected # NoCall /\ current_mode = selected.mode)
    /\ pc = "download_returned" =>
          /\ DownloadName(selected.mode, NameF) \in Files(staging)
          /\ selected.mode = "image" => FileName(NameF, ExtTxt) \notin Files(staging)
          /\ selected.mode # "image" => BrowserFile \notin Files(staging)

\* an image task after a text task in one Gemini session, the mode controls
\* were not found, and download_artifact has returned the browser's file
C39_Witness ==
    /\ pc = "download_returned" /\ provider_class = "gemini"
    /\ selected = [mode |-> "image", before |-> "text", path |-> "not_found"]
    /\ BrowserFile \in Files(staging)
====
